---------------------------- MODULE Spec2Model ----------------------------
(***************************************************************************)
(* Verification model of the numerical core of power-grid-model:           *)
(*   math_solver/sparse_lu_solver.hpp   (SparseLUSolver, DenseLUFactor)    *)
(*                                                                         *)
(* Floating point values are modelled by a two-digit positional number     *)
(* system in the base T = epsilon_perturbation = 1e-13:                    *)
(*      <<"fin", l, p, q, d>>  stands for  T^l * (p + q*T) / d             *)
(* with integers p # 0, q and d > 0 (zero is <<"fin",0,0,0,1>>), next to   *)
(* the IEEE special values +inf, -inf and NaN.  Sums, products and         *)
(* quotients are exact up to a relative error of T^2 = 1e-26, which is     *)
(* below the resolution of a double (2.2e-16) while a relative difference  *)
(* of T itself is kept, as a double keeps it.  The digits p/d and q/d stay *)
(* small rationals for the inputs the model draws.                         *)
(***************************************************************************)
EXTENDS Integers, Sequences, FiniteSets, TLC

(***************************************************************************)
(* Numbers                                                                 *)
(***************************************************************************)
AbsI(i) == IF i < 0 THEN -i ELSE i

RECURSIVE GCD(_, _)
GCD(a, b) == IF b = 0 THEN a ELSE GCD(b, a % b)

Zero == <<"fin", 0, 0, 0, 1>>
NaN == <<"nan", 0, 0, 0, 1>>
PInf == <<"+inf", 0, 0, 0, 1>>
NInf == <<"-inf", 0, 0, 0, 1>>

\* the digits p, q and d divided by their common divisor g
Reduced(l, p, q, d, g) == <<"fin", l, p \div g, q \div g, d \div g>>

\* T^l * (p + q*T) / d brought to its normal form (d > 0 is required)
Fin(l, p, q, d) ==
    IF p = 0
    THEN IF q = 0 THEN Zero ELSE Reduced(l + 1, q, 0, d, GCD(AbsI(q), d))
    ELSE Reduced(l, p, q, d, GCD(GCD(AbsI(p), AbsI(q)), d))

Num(i) == Fin(0, i, 0, 1)
One == Num(1)

IsFin(x) == x[1] = "fin"
IsNaN(x) == x[1] = "nan"
IsInf(x) == x[1] \in {"+inf", "-inf"}
IsZero(x) == IsFin(x) /\ x[3] = 0

\* -1, 0 or 1; the sign of NaN is taken as 0
Sign(x) ==
    CASE x[1] = "+inf" -> 1
      [] x[1] = "-inf" -> -1
      [] x[1] = "nan" -> 0
      [] OTHER -> IF x[3] > 0 THEN 1 ELSE IF x[3] < 0 THEN -1 ELSE 0

InfOfSign(s) == IF s < 0 THEN NInf ELSE PInf

Neg(x) ==
    CASE x[1] = "+inf" -> NInf
      [] x[1] = "-inf" -> PInf
      [] x[1] = "nan" -> NaN
      [] OTHER -> <<"fin", x[2], -x[3], -x[4], x[5]>>

Add(x, y) ==
    IF IsNaN(x) \/ IsNaN(y) THEN NaN
    ELSE IF IsInf(x) THEN (IF IsInf(y) /\ x # y THEN NaN ELSE x)
    ELSE IF IsInf(y) THEN y
    ELSE IF IsZero(x) THEN y
    ELSE IF IsZero(y) THEN x
    ELSE IF x[2] = y[2]
         THEN Fin(x[2], x[3] * y[5] + y[3] * x[5], x[4] * y[5] + y[4] * x[5], x[5] * y[5])
    ELSE IF y[2] = x[2] + 1
         THEN Fin(x[2], x[3] * y[5], x[4] * y[5] + y[3] * x[5], x[5] * y[5])
    ELSE IF x[2] = y[2] + 1
         THEN Fin(y[2], y[3] * x[5], y[4] * x[5] + x[3] * y[5], x[5] * y[5])
    ELSE IF x[2] < y[2] THEN x ELSE y

Sub(x, y) == Add(x, Neg(y))

Mul(x, y) ==
    IF IsNaN(x) \/ IsNaN(y) THEN NaN
    ELSE IF IsInf(x) \/ IsInf(y)
         THEN (IF IsZero(x) \/ IsZero(y) THEN NaN ELSE InfOfSign(Sign(x) * Sign(y)))
    ELSE IF IsZero(x) \/ IsZero(y) THEN Zero
    ELSE Fin(x[2] + y[2], x[3] * y[3], x[3] * y[4] + x[4] * y[3], x[5] * y[5])

\* x / y; a division by zero gives an infinity (NaN for 0/0), as IEEE does
Div(x, y) ==
    IF IsNaN(x) \/ IsNaN(y) THEN NaN
    ELSE IF IsInf(x)
         THEN (IF IsInf(y) THEN NaN
               ELSE InfOfSign(Sign(x) * (IF Sign(y) < 0 THEN -1 ELSE 1)))
    ELSE IF IsInf(y) THEN Zero
    ELSE IF IsZero(y) THEN (IF IsZero(x) THEN NaN ELSE InfOfSign(Sign(x)))
    ELSE IF IsZero(x) THEN Zero
    ELSE \* (p1 + q1*T) / (p2 + q2*T) = (p1*p2 + (q1*p2 - p1*q2)*T) / p2^2
         Fin(x[2] - y[2],
             y[5] * x[3] * y[3],
             y[5] * (x[4] * y[3] - x[3] * y[4]),
             x[5] * y[3] * y[3])

\* x < y; every comparison with NaN is false
Lt(x, y) == ~IsNaN(x) /\ ~IsNaN(y) /\ x # y /\
            (IF IsInf(x) \/ IsInf(y)
             THEN x = NInf \/ y = PInf
             ELSE Sign(Sub(x, y)) < 0)

Le(x, y) == ~IsNaN(x) /\ ~IsNaN(y) /\ (x = y \/ Lt(x, y))

\* std::max(a, b) == (a < b) ? b : a
std_max(a, b) == IF Lt(a, b) THEN b ELSE a

\* cabs / std::abs of a real scalar
cabs(x) == IF Sign(x) < 0 THEN Neg(x) ELSE x

\* std::isnormal: neither zero, infinite nor NaN (the digits the model draws
\* stay far from the subnormal range)
is_normal(x) == IsFin(x) /\ ~IsZero(x)


(***************************************************************************)
(* Program constants (sparse_lu_solver.hpp:17-20, 201)                     *)
(***************************************************************************)
\* std::numeric_limits<double>::epsilon() = 2.22e-16 = 0.00222 * T
epsilon == Fin(1, 111, 0, 50000)
\* 1e-13 = T
epsilon_perturbation == Fin(1, 1, 0, 1)
\* 1e-4
cap_back_error_denominator == Fin(0, 1, 0, 10000)
max_iterative_refinement == 5
\* Tensor::RowsAtCompileTime of the block instantiation (PFJacBlock<symmetric_t>)
block_size == 2

Range0(n) == 0 .. (n - 1)
\* f itself, with the value of every argument computed
Strict(f) == <<>> @@ f

\* a vector indexed from 0, from a tuple
Vec(t) == Strict([i \in Range0(Len(t)) |-> t[i + 1]])

\* a faulty variant of perturb_pivot_if_needed: the sign of the value is lost
perturb_pivot_losing_sign(perturb_threshold, value, abs_value, has_pivot_perturbation) ==
    IF Lt(abs_value, perturb_threshold)
    THEN [value |-> perturb_threshold,
          has_pivot_perturbation |-> TRUE,
          abs_value |-> perturb_threshold]
    ELSE [value |-> value,
          has_pivot_perturbation |-> has_pivot_perturbation,
          abs_value |-> abs_value]

(***************************************************************************)
(* perturb_pivot_if_needed: value, abs_value and has_pivot_perturbation    *)
(* are passed by reference; the record returned holds their new values.    *)
(***************************************************************************)
perturb_pivot_if_needed(perturb_threshold, value, abs_value, has_pivot_perturbation) ==
    IF Lt(abs_value, perturb_threshold)
    THEN LET scale == IF abs_value = Zero THEN One ELSE Div(value, abs_value)
         IN  [value |-> Mul(scale, perturb_threshold),
              has_pivot_perturbation |-> TRUE,
              abs_value |-> perturb_threshold]
    ELSE [value |-> value,
          has_pivot_perturbation |-> has_pivot_perturbation,
          abs_value |-> abs_value]

(***************************************************************************)
(* Dense blocks: a block is a function [row -> [col -> number]], a vector  *)
(* a function [row -> number], a permutation its vector of indices         *)
(* (Eigen::PermutationMatrix::indices()).                                  *)
(***************************************************************************)
BlockZero == Strict([r \in Range0(block_size) |-> Strict([c \in Range0(block_size) |-> Zero])])
VecZero == Strict([r \in Range0(block_size) |-> Zero])

RECURSIVE SumTo(_, _)
\* f[0] + ... + f[n-1], added in ascending order
SumTo(f, n) == IF n = 0 THEN Zero ELSE Add(SumTo(f, n - 1), f[n - 1])

MatMul(a, b) ==
    Strict([r \in Range0(block_size) |-> Strict([c \in Range0(block_size) |->
        SumTo(Strict([k \in Range0(block_size) |-> Mul(a[r][k], b[k][c])]), block_size)])])
MatVec(a, v) ==
    Strict([r \in Range0(block_size) |->
        SumTo(Strict([k \in Range0(block_size) |-> Mul(a[r][k], v[k])]), block_size)])
MatSub(a, b) ==
    Strict([r \in Range0(block_size) |-> Strict([c \in Range0(block_size) |-> Sub(a[r][c], b[r][c])])])
VecSub(a, b) == Strict([r \in Range0(block_size) |-> Sub(a[r], b[r])])
VecAdd(a, b) == Strict([r \in Range0(block_size) |-> Add(a[r], b[r])])

setIdentity == Strict([i \in Range0(block_size) |-> i])
\* PermutationMatrix::applyTranspositionOnTheRight(i, j): swap indices[i], indices[j]
applyTranspositionOnTheRight(indices, i, j) ==
    [indices EXCEPT ![i] = indices[j], ![j] = indices[i]]
\* the index k with indices[k] = r (0 when there is none)
IndexOf(indices, r) ==
    IF \E k \in Range0(block_size) : indices[k] = r
    THEN CHOOSE k \in Range0(block_size) : indices[k] = r
    ELSE 0
\* (P * m).row(indices[i]) = m.row(i)
PermRows(indices, m) == Strict([r \in Range0(block_size) |-> m[IndexOf(indices, r)]])
\* (m * Q).col(i) = m.col(indices[i])
PermCols(m, indices) ==
    Strict([r \in Range0(block_size) |-> Strict([c \in Range0(block_size) |-> m[r][indices[c]]])])
\* (P * v)(indices[i]) = v(i)
PermVec(indices, v) == Strict([r \in Range0(block_size) |-> v[IndexOf(indices, r)]])

(***************************************************************************)
(* DenseLUFactor::factorize_block_in_place                                 *)
(***************************************************************************)
\* cwiseAbs2() of one coefficient
Abs2(x) == Mul(x, x)

RECURSIVE maxCoeff(_, _, _, _)
\* bottomRightCorner(size - pivot, size - pivot).cwiseAbs2().maxCoeff(&row, &col):
\* Eigen's visitor starts from the corner's first coefficient and scans it
\* column after column, taking a coefficient only when it is greater (k counts
\* the coefficients scanned, best is the position held)
maxCoeff(matrix, pivot, k, best) ==
    LET m == block_size - pivot
        r == pivot + (k % m)
        c == pivot + (k \div m)
    IN  IF k = m * m THEN best
        ELSE maxCoeff(matrix, pivot, k + 1,
                      IF Lt(Abs2(matrix[best[1]][best[2]]), Abs2(matrix[r][c]))
                      THEN <<r, c>> ELSE best)

SwapRows(m, i, j) == [m EXCEPT ![i] = m[j], ![j] = m[i]]
SwapCols(m, i, j) ==
    Strict([r \in Range0(block_size) |-> [m[r] EXCEPT ![i] = m[r][j], ![j] = m[r][i]]])

\* Gaussian elimination of the bottom right corner behind the pivot
eliminate(m, pivot) ==
    LET col == Strict([r \in Range0(block_size) |->
                   IF r > pivot THEN Div(m[r][pivot], m[pivot][pivot]) ELSE m[r][pivot]])
    IN  Strict([r \in Range0(block_size) |-> Strict([c \in Range0(block_size) |->
            IF r > pivot /\ c = pivot THEN col[r]
            ELSE IF r > pivot /\ c > pivot THEN Sub(m[r][c], Mul(col[r], m[pivot][c]))
            ELSE m[r][c]])])

\* a faulty variant of remaining_identity: the remaining transpositions are left
\* as they were
remaining_untouched(transpositions, pivot) == transpositions

\* the identity transposition for the rows or columns from pivot on (lines 90-93)
remaining_identity(transpositions, pivot) ==
    Strict([k \in Range0(block_size) |-> IF k >= pivot THEN k ELSE transpositions[k]])

\* lines 103-121 of a pass: the pivot at (row_biggest, col_biggest), perturbed
\* into pp, is swapped to (pivot, pivot) and the corner behind it eliminated
swap_and_eliminate(d, pivot, perturb_threshold, row_biggest, col_biggest, pp) ==
    LET m1 == [d.matrix EXCEPT ![row_biggest][col_biggest] = pp.value]
        m2 == IF pivot # row_biggest THEN SwapRows(m1, pivot, row_biggest) ELSE m1
        m3 == IF pivot # col_biggest THEN SwapCols(m2, pivot, col_biggest) ELSE m2
    IN  [d EXCEPT !.matrix = IF pivot < block_size - 1 THEN eliminate(m3, pivot) ELSE m3,
                  !.has_pivot_perturbation = pp.has_pivot_perturbation,
                  !.max_pivot = std_max(@, pp.abs_value),
                  !.row_transpositions[pivot] = row_biggest,
                  !.col_transpositions[pivot] = col_biggest,
                  !.pivot_log = Append(@, [pivot |-> pivot,
                                           before |-> d.matrix[row_biggest][col_biggest],
                                           after |-> pp.value,
                                           threshold |-> perturb_threshold])]

\* lines 86-101 of a pass, the biggest score found at (row_biggest, col_biggest)
check_and_perturb(d, pivot, perturb_threshold, use_pivot_perturbation, row_biggest, col_biggest) ==
    IF Abs2(d.matrix[row_biggest][col_biggest]) = Zero /\ ~use_pivot_perturbation
    THEN \* identity transpositions for what remains, and break
         [d EXCEPT !.row_transpositions = remaining_identity(@, pivot),
                   !.col_transpositions = remaining_identity(@, pivot),
                   !.broken = TRUE]
    ELSE swap_and_eliminate(d, pivot, perturb_threshold, row_biggest, col_biggest,
             perturb_pivot_if_needed(perturb_threshold,
                                     d.matrix[row_biggest][col_biggest],
                                     \* sqrt(biggest_score)
                                     cabs(d.matrix[row_biggest][col_biggest]),
                                     d.has_pivot_perturbation))

\* one pass of the main loop; d holds the locals and the by-reference arguments,
\* and pivot_log the pivots met: their value before and after perturb_pivot_if_needed
dense_pivot_step(d, pivot, perturb_threshold, use_pivot_perturbation) ==
    check_and_perturb(d, pivot, perturb_threshold, use_pivot_perturbation,
                      maxCoeff(d.matrix, pivot, 1, <<pivot, pivot>>)[1],
                      maxCoeff(d.matrix, pivot, 1, <<pivot, pivot>>)[2])

RECURSIVE dense_main_loop(_, _, _, _)
dense_main_loop(d, pivot, perturb_threshold, use_pivot_perturbation) ==
    IF pivot = block_size \/ d.broken THEN d
    ELSE dense_main_loop(dense_pivot_step(d, pivot, perturb_threshold, use_pivot_perturbation),
                         pivot + 1, perturb_threshold, use_pivot_perturbation)

RECURSIVE accumulate_p(_, _, _)
\* for (pivot = size - 1; pivot != -1; --pivot) p.applyTranspositionOnTheRight(...)
accumulate_p(indices, row_transpositions, pivot) ==
    IF pivot = -1 THEN indices
    ELSE accumulate_p(applyTranspositionOnTheRight(indices, pivot, row_transpositions[pivot]),
                      row_transpositions, pivot - 1)

RECURSIVE accumulate_q(_, _, _)
\* for (pivot = 0; pivot != size; ++pivot) q.applyTranspositionOnTheRight(...)
accumulate_q(indices, col_transpositions, pivot) ==
    IF pivot = block_size THEN indices
    ELSE accumulate_q(applyTranspositionOnTheRight(indices, pivot, col_transpositions[pivot]),
                      col_transpositions, pivot + 1)

\* a faulty variant of dense_ill_conditioned: no comparison with epsilon * max_pivot
dense_ill_conditioned_no_epsilon(matrix, max_pivot, has_pivot_perturbation) ==
    \E pivot \in Range0(block_size) : ~is_normal(matrix[pivot][pivot])

\* the final check of the diagonal: TRUE when SparseMatrixError is thrown
dense_ill_conditioned(matrix, max_pivot, has_pivot_perturbation) ==
    LET pivot_threshold == IF has_pivot_perturbation THEN Zero ELSE Mul(epsilon, max_pivot)
    IN  \E pivot \in Range0(block_size) :
            \/ Lt(cabs(matrix[pivot][pivot]), pivot_threshold)
            \/ ~is_normal(matrix[pivot][pivot])

\* lines 123-140, after the main loop left d: the permutations accumulated and
\* the final check of the diagonal
accumulate_and_check(d) ==
    [matrix |-> d.matrix,
     block_perm |-> [p |-> accumulate_p(setIdentity, d.row_transpositions, block_size - 1),
                     q |-> accumulate_q(setIdentity, d.col_transpositions, 0)],
     row_transpositions |-> d.row_transpositions,
     col_transpositions |-> d.col_transpositions,
     has_pivot_perturbation |-> d.has_pivot_perturbation,
     pivot_log |-> d.pivot_log,
     throws |-> dense_ill_conditioned(d.matrix, d.max_pivot, d.has_pivot_perturbation)]

\* the block factorized in place, the permutations put in block_perm, the flag
\* updated; throws tells whether SparseMatrixError left the function
factorize_block_in_place(matrix, perturb_threshold, use_pivot_perturbation, has_pivot_perturbation) ==
    accumulate_and_check(
        dense_main_loop([matrix |-> matrix,
                         row_transpositions |-> Strict([k \in Range0(block_size) |-> 0]),
                         col_transpositions |-> Strict([k \in Range0(block_size) |-> 0]),
                         max_pivot |-> Zero,
                         has_pivot_perturbation |-> has_pivot_perturbation,
                         pivot_log |-> <<>>,
                         broken |-> FALSE],
                        0, perturb_threshold, use_pivot_perturbation))

(***************************************************************************)
(* SparseLUSolver.  `self` is the solver object: the template choice       *)
(* is_block, the shared pattern and the caches.  A std::optional is a      *)
(* sequence of length 0 (empty) or 1.  A member function is an operator    *)
(* from self and its arguments to a record of self and the arguments       *)
(* passed by reference, as they are when the function returns or throws.   *)
(***************************************************************************)
\* dot(tensor, tensor), dot(tensor, vector) and the element-wise operations
dot(is_block, a, b) == IF is_block THEN MatMul(a, b) ELSE Mul(a, b)
dot_vec(is_block, a, v) == IF is_block THEN MatVec(a, v) ELSE Mul(a, v)
tensor_sub(is_block, a, b) == IF is_block THEN MatSub(a, b) ELSE Sub(a, b)
vector_sub(is_block, a, b) == IF is_block THEN VecSub(a, b) ELSE Sub(a, b)
vector_add(is_block, a, b) == IF is_block THEN VecAdd(a, b) ELSE Add(a, b)

\* a faulty variant of reset_matrix_cache: matrix_norm_ is kept
reset_keeping_norm(self) ==
    [self EXCEPT !.has_pivot_perturbation_ = FALSE, !.original_matrix_ = <<>>]

\* a faulty variant of reset_matrix_cache: has_pivot_perturbation_ is kept
reset_keeping_flag(self) ==
    [self EXCEPT !.matrix_norm_ = Zero, !.original_matrix_ = <<>>]

reset_matrix_cache(self) ==
    [self EXCEPT !.has_pivot_perturbation_ = FALSE,
                 !.matrix_norm_ = Zero,
                 !.original_matrix_ = <<>>]

RECURSIVE max_row_sum(_, _)
\* cabs(block).rowwise().sum().maxCoeff(), scanned from row 0: rows 0 .. n-1
max_row_sum(block, n) ==
    LET sum == SumTo(Strict([c \in Range0(block_size) |-> cabs(block[n - 1][c])]), block_size)
    IN  IF n = 1 THEN sum
        ELSE LET res == max_row_sum(block, n - 1)
             IN  IF Lt(res, sum) THEN sum ELSE res

RECURSIVE row_norm_upto(_, _, _, _)
\* the row_norm of `row` after the entries [row_indptr[row], idx) were visited
row_norm_upto(self, data, row, idx) ==
    IF idx = self.row_indptr_[row] THEN Zero
    ELSE LET before == row_norm_upto(self, data, row, idx - 1)
         IN  IF self.col_indices_[idx - 1] = row THEN before
             ELSE Add(before, IF self.is_block THEN max_row_sum(data[idx - 1], block_size)
                                               ELSE cabs(data[idx - 1]))

RECURSIVE matrix_norm_upto(_, _, _)
\* matrix_norm_ after the rows [0, row) were visited
matrix_norm_upto(self, data, row) ==
    IF row = 0 THEN Zero
    ELSE std_max(matrix_norm_upto(self, data, row - 1),
                 row_norm_upto(self, data, row - 1, self.row_indptr_[row]))

\* a faulty variant of initialize_pivot_perturbation: the norm is not computed
initialize_without_norm(self, data) ==
    [self EXCEPT !.original_matrix_ = <<data>>]

initialize_pivot_perturbation(self, data) ==
    [self EXCEPT !.original_matrix_ = <<data>>,
                 !.matrix_norm_ = matrix_norm_upto(self, data, self.size_)]

RECURSIVE lower_bound_after(_, _, _, _)
\* a faulty variant of lower_bound: the first entry greater than value
lower_bound_after(col_indices, first, last, value) ==
    IF first >= last \/ col_indices[first] > value THEN first
    ELSE lower_bound_after(col_indices, first + 1, last, value)

RECURSIVE lower_bound(_, _, _, _)
\* std::lower_bound(col_indices.cbegin() + first, col_indices.cbegin() + last, value)
lower_bound(col_indices, first, last, value) ==
    IF first >= last \/ col_indices[first] >= value THEN first
    ELSE lower_bound(col_indices, first + 1, last, value)

\* a faulty variant of scalar_pivot_singular: the pivot is never refused
scalar_pivot_never_singular(value) == FALSE

\* scalar entries: TRUE when the pivot makes prefactorize throw (lines 282-284)
scalar_pivot_singular(value) == ~is_normal(value)

\* block entries (lines 270-274): what factorize_block_in_place returned in f is
\* put in lu_matrix[pivot_idx], block_perm_array[pivot_row_col] and the flag
block_pivot(st, pivot_row_col, pivot_idx, f) ==
    [st EXCEPT !.lu_matrix[pivot_idx] = f.matrix,
               !.block_perm_array[pivot_row_col] = f.block_perm,
               !.has_pivot_perturbation_ = f.has_pivot_perturbation,
               !.pivot_log = @ \o [k \in DOMAIN f.pivot_log |->
                   [row |-> pivot_row_col] @@ f.pivot_log[k]],
               !.block_log = Append(@,
                   [row |-> pivot_row_col,
                    row_transpositions |-> f.row_transpositions,
                    col_transpositions |-> f.col_transpositions]),
               !.throws = f.throws]

\* scalar entries (lines 276-285): the pivot as perturb_pivot_if_needed left it
\* in pp, and the is_normal test
scalar_pivot(st, pivot_row_col, pivot_idx, perturb_threshold, pp) ==
    [st EXCEPT !.lu_matrix[pivot_idx] = pp.value,
               !.has_pivot_perturbation_ = pp.has_pivot_perturbation,
               !.pivot_log = Append(@, [row |-> pivot_row_col, pivot |-> 0,
                                        before |-> st.lu_matrix[pivot_idx],
                                        after |-> pp.value,
                                        threshold |-> perturb_threshold]),
               !.throws = scalar_pivot_singular(pp.value)]

\* the diagonal pivot of pivot_row_col (lines 266-287): st holds lu_matrix,
\* block_perm_array, col_position_idx and the flag
pivot_factorize(self, st, pivot_row_col, perturb_threshold, use_pivot_perturbation) ==
    IF self.is_block
    THEN block_pivot(st, pivot_row_col, self.diag_lu_[pivot_row_col],
             factorize_block_in_place(st.lu_matrix[self.diag_lu_[pivot_row_col]],
                                      perturb_threshold, use_pivot_perturbation,
                                      st.has_pivot_perturbation_))
    ELSE scalar_pivot(st, pivot_row_col, self.diag_lu_[pivot_row_col], perturb_threshold,
             IF use_pivot_perturbation
             THEN perturb_pivot_if_needed(perturb_threshold,
                                          st.lu_matrix[self.diag_lu_[pivot_row_col]],
                                          cabs(st.lu_matrix[self.diag_lu_[pivot_row_col]]),
                                          st.has_pivot_perturbation_)
             ELSE [value |-> st.lu_matrix[self.diag_lu_[pivot_row_col]],
                   has_pivot_perturbation |-> st.has_pivot_perturbation_])

\* a faulty variant of increment_position: the position stays where it was
increment_position_stuck(col_position_idx, row) == col_position_idx

\* ++col_position_idx[row] (lines 311, 396 and 399)
increment_position(col_position_idx, row) == [col_position_idx EXCEPT ![row] = @ + 1]

\* what is recorded of a use of col_position_idx[row] during the pass of pivot:
\* idx is the position read, col the column the code expects there
position_read(kind, row, pivot, idx) ==
    [kind |-> kind, row |-> row, pivot |-> pivot, idx |-> idx, from |-> idx, col |-> pivot]

RECURSIVE permute_left_and_above(_, _, _, _)
\* block matrix, lines 296-312: rows of the L's left of the pivot, columns of the
\* U's above it, for l_idx in [l_idx, pivot_idx)
permute_left_and_above(self, st, pivot_row_col, l_idx) ==
    IF ~(l_idx < self.diag_lu_[pivot_row_col]) THEN st
    ELSE LET block_perm == st.block_perm_array[pivot_row_col]
             u_row == self.col_indices_[l_idx]
             u_idx == st.col_position_idx[u_row]
             lu1 == [st.lu_matrix EXCEPT ![l_idx] = PermRows(block_perm.p, @)]
             lu2 == [lu1 EXCEPT ![u_idx] = PermCols(@, block_perm.q)]
         IN  permute_left_and_above(self,
                 [st EXCEPT !.lu_matrix = lu2,
                            !.col_position_idx = increment_position(@, u_row),
                            !.index_log = Append(@,
                                position_read("u_above", u_row, pivot_row_col, u_idx))],
                 pivot_row_col, l_idx + 1)

RECURSIVE forward_rows(_, _, _, _)
\* forward substitution per row in u, from (block_row, block_col) on
forward_rows(u, pivot, block_row, block_col) ==
    IF block_row = block_size THEN u
    ELSE IF ~(block_col < block_row) THEN forward_rows(u, pivot, block_row + 1, 0)
    ELSE forward_rows(
             [u EXCEPT ![block_row] = Strict([c \in Range0(block_size) |->
                  Sub(u[block_row][c], Mul(pivot[block_row][block_col], u[block_col][c]))])],
             pivot, block_row, block_col + 1)

\* block matrix, lines 317-330: the U blocks right of the pivot
u_blocks_right(self, st, pivot_row_col) ==
    LET pivot_idx == self.diag_lu_[pivot_row_col]
        pivot == st.lu_matrix[pivot_idx]
        block_perm == st.block_perm_array[pivot_row_col]
    IN  [st EXCEPT !.lu_matrix = Strict([idx \in DOMAIN st.lu_matrix |->
            IF idx > pivot_idx /\ idx < self.row_indptr_[pivot_row_col + 1]
            THEN forward_rows(PermRows(block_perm.p, st.lu_matrix[idx]), pivot, 0, 0)
            ELSE st.lu_matrix[idx]])]

RECURSIVE l_block_columns(_, _, _, _)
\* forward substitution per column in l (lines 360-366), from (block_col, block_row) on
l_block_columns(l, pivot, block_col, block_row) ==
    IF block_col = block_size THEN l
    ELSE IF block_row < block_col
         THEN l_block_columns(
                  Strict([r \in Range0(block_size) |-> [l[r] EXCEPT ![block_col] =
                       Sub(l[r][block_col], Mul(pivot[block_row][block_col], l[r][block_row]))]]),
                  pivot, block_col, block_row + 1)
    ELSE l_block_columns(
             Strict([r \in Range0(block_size) |-> [l[r] EXCEPT ![block_col] =
                  Div(l[r][block_col], pivot[block_col][block_col])]]),
             pivot, block_col + 1, 0)

RECURSIVE schur_row(_, _, _, _, _, _, _)
\* lines 386-393: found is what std::lower_bound returned for u_col, searched in
\* row l_row from a_idx on; the entry there takes the subtraction and a_idx
\* moves to it
schur_found(self, st, pivot_row_col, l_row, l_idx, a_idx, u_idx, found) ==
    schur_row(self,
        [st EXCEPT !.lu_matrix[found] =
                       tensor_sub(self.is_block, @,
                           dot(self.is_block, st.lu_matrix[l_idx], st.lu_matrix[u_idx])),
                   !.index_log = Append(@,
                       [kind |-> "schur", row |-> l_row, pivot |-> pivot_row_col,
                        idx |-> found, from |-> a_idx,
                        col |-> self.col_indices_[u_idx]])],
        pivot_row_col, l_row, l_idx, found, u_idx + 1)

\* lines 380-394: A(l_row, u_col) -= l * U(pivot_row_col, u_col) for the u_idx on
\* the right of the pivot, a_idx running along row l_row from l_idx
schur_row(self, st, pivot_row_col, l_row, l_idx, a_idx, u_idx) ==
    IF ~(u_idx < self.row_indptr_[pivot_row_col + 1]) THEN st
    ELSE schur_found(self, st, pivot_row_col, l_row, l_idx, a_idx, u_idx,
             lower_bound(self.col_indices_, a_idx, self.row_indptr_[l_row + 1],
                         self.col_indices_[u_idx]))

RECURSIVE l_below_pivot(_, _, _, _)
\* lines 336-397: the L's below the pivot and the Schur complement of their rows,
\* for l_ref_idx in [l_ref_idx, row_indptr[pivot_row_col + 1])
l_below_pivot(self, st, pivot_row_col, l_ref_idx) ==
    IF ~(l_ref_idx < self.row_indptr_[pivot_row_col + 1]) THEN st
    ELSE LET pivot_idx == self.diag_lu_[pivot_row_col]
             pivot == st.lu_matrix[pivot_idx]
             l_row == self.col_indices_[l_ref_idx]
             l_idx == st.col_position_idx[l_row]
             l == IF self.is_block
                  THEN l_block_columns(
                           PermCols(st.lu_matrix[l_idx],
                                    st.block_perm_array[pivot_row_col].q),
                           pivot, 0, 0)
                  ELSE Div(st.lu_matrix[l_idx], pivot)
             s1 == [st EXCEPT !.lu_matrix[l_idx] = l,
                              !.index_log = Append(@,
                                  position_read("l_below", l_row, pivot_row_col, l_idx))]
             s2 == schur_row(self, s1, pivot_row_col, l_row, l_idx, l_idx, pivot_idx + 1)
         IN  l_below_pivot(self,
                 [s2 EXCEPT !.col_position_idx = increment_position(@, l_row)],
                 pivot_row_col, l_ref_idx + 1)

RECURSIVE pivot_loop(_, _, _, _, _)
\* lines 289-399 of a pass, s1 being what the diagonal pivot left: the throw, or
\* the rest of the row and of the column and the next pass
after_pivot(self, s1, pivot_row_col, perturb_threshold, use_pivot_perturbation) ==
    IF s1.throws THEN s1
    ELSE LET s2 == IF self.is_block
                   THEN u_blocks_right(self,
                            permute_left_and_above(self, s1, pivot_row_col,
                                                   self.row_indptr_[pivot_row_col]),
                            pivot_row_col)
                   ELSE s1
             s3 == l_below_pivot(self, s2, pivot_row_col, self.diag_lu_[pivot_row_col] + 1)
         IN  pivot_loop(self,
                        [s3 EXCEPT !.col_position_idx =
                                       increment_position(@, pivot_row_col)],
                        pivot_row_col + 1, perturb_threshold, use_pivot_perturbation)

\* for (pivot_row_col = 0; pivot_row_col != size_; ++pivot_row_col), left by a throw
pivot_loop(self, st, pivot_row_col, perturb_threshold, use_pivot_perturbation) ==
    IF pivot_row_col = self.size_ THEN st
    ELSE after_pivot(self,
             pivot_factorize(self,
                 [st EXCEPT !.index_log = Append(@,
                      position_read("pivot", pivot_row_col, pivot_row_col,
                                    st.col_position_idx[pivot_row_col]))],
                 pivot_row_col, perturb_threshold, use_pivot_perturbation),
             pivot_row_col, perturb_threshold, use_pivot_perturbation)

\* lines 401-404, st being what the pivoting left (by a throw when st.throws):
\* the caches are reset when no perturbation happened
reset_if_clean(self, st) ==
    [self |-> IF ~st.throws /\ ~st.has_pivot_perturbation_
              THEN reset_matrix_cache([self EXCEPT !.has_pivot_perturbation_ =
                                                       st.has_pivot_perturbation_])
              ELSE [self EXCEPT !.has_pivot_perturbation_ = st.has_pivot_perturbation_],
     data |-> st.lu_matrix,
     block_perm_array |-> st.block_perm_array,
     pivot_log |-> st.pivot_log,
     block_log |-> st.block_log,
     index_log |-> st.index_log,
     throws |-> st.throws]

\* lines 246-404, self being the solver once its caches are initialized
factorize_all(self, data, block_perm_array, use_pivot_perturbation) ==
    reset_if_clean(self,
        pivot_loop(self,
                   [lu_matrix |-> data,
                    block_perm_array |-> block_perm_array,
                    col_position_idx |-> Strict([row \in Range0(self.size_) |->
                                             self.row_indptr_[row]]),
                    has_pivot_perturbation_ |-> self.has_pivot_perturbation_,
                    pivot_log |-> <<>>,
                    block_log |-> <<>>,
                    index_log |-> <<>>,
                    throws |-> FALSE],
                   0, Mul(epsilon_perturbation, self.matrix_norm_),
                   use_pivot_perturbation))

\* prefactorize in place: data and block_perm_array are passed by reference
prefactorize(self, data, block_perm_array, use_pivot_perturbation) ==
    factorize_all(IF use_pivot_perturbation
                  THEN initialize_pivot_perturbation(reset_matrix_cache(self), data)
                  ELSE reset_matrix_cache(self),
                  data, block_perm_array, use_pivot_perturbation)

(***************************************************************************)
(* solve_once: forward substitution with L, backward substitution with U   *)
(***************************************************************************)
RECURSIVE forward_subtract(_, _, _, _, _)
\* x[row] -= dot(lu_matrix[l_idx], x[col]) for l_idx in [l_idx, diag_lu[row])
forward_subtract(self, lu_matrix, x, row, l_idx) ==
    IF ~(l_idx < self.diag_lu_[row]) THEN x
    ELSE forward_subtract(self, lu_matrix,
             [x EXCEPT ![row] = vector_sub(self.is_block, @,
                                    dot_vec(self.is_block, lu_matrix[l_idx],
                                            x[self.col_indices_[l_idx]]))],
             row, l_idx + 1)

RECURSIVE forward_in_block(_, _, _, _)
\* xb(br) -= pivot(br, bc) * xb(bc) for bc < br, from (br, bc) on
forward_in_block(xb, pivot, br, bc) ==
    IF br = block_size THEN xb
    ELSE IF ~(bc < br) THEN forward_in_block(xb, pivot, br + 1, 0)
    ELSE forward_in_block([xb EXCEPT ![br] = Sub(@, Mul(pivot[br][bc], xb[bc]))],
                          pivot, br, bc + 1)

\* rhs[row] as lines 584 and 586 read it: when rhs and x are the same buffer it
\* is what x holds in that row at that moment
rhs_read(rhs, x, row, same_buffer) == IF same_buffer THEN x[row] ELSE rhs[row]

RECURSIVE forward_substitution(_, _, _, _, _, _, _)
\* rows [row, size_); same_buffer: the caller passed one buffer as rhs and as x
forward_substitution(self, lu_matrix, block_perm_array, rhs, x, row, same_buffer) ==
    IF row = self.size_ THEN x
    ELSE LET x1 == [x EXCEPT ![row] = IF self.is_block
                                      THEN PermVec(block_perm_array[row].p,
                                                   rhs_read(rhs, x, row, same_buffer))
                                      ELSE rhs_read(rhs, x, row, same_buffer)]
             x2 == forward_subtract(self, lu_matrix, x1, row, self.row_indptr_[row])
             x3 == IF self.is_block
                   THEN [x2 EXCEPT ![row] =
                            forward_in_block(@, lu_matrix[self.diag_lu_[row]], 0, 0)]
                   ELSE x2
         IN  forward_substitution(self, lu_matrix, block_perm_array, rhs, x3, row + 1,
                                  same_buffer)

RECURSIVE backward_subtract(_, _, _, _, _)
\* x[row] -= dot(lu_matrix[u_idx], x[col]) for u_idx from u_idx down to diag_lu[row] + 1
backward_subtract(self, lu_matrix, x, row, u_idx) ==
    IF ~(u_idx > self.diag_lu_[row]) THEN x
    ELSE backward_subtract(self, lu_matrix,
             [x EXCEPT ![row] = vector_sub(self.is_block, @,
                                    dot_vec(self.is_block, lu_matrix[u_idx],
                                            x[self.col_indices_[u_idx]]))],
             row, u_idx - 1)

RECURSIVE backward_in_block(_, _, _, _)
\* from (br, bc) on, br and bc running down
backward_in_block(xb, pivot, br, bc) ==
    IF br = -1 THEN xb
    ELSE IF bc > br
         THEN backward_in_block([xb EXCEPT ![br] = Sub(@, Mul(pivot[br][bc], xb[bc]))],
                                pivot, br, bc - 1)
    ELSE backward_in_block([xb EXCEPT ![br] = Div(@, pivot[br][br])],
                           pivot, br - 1, block_size - 1)

RECURSIVE backward_substitution(_, _, _, _)
\* rows row, row - 1, ..., 0
backward_substitution(self, lu_matrix, x, row) ==
    IF row = -1 THEN x
    ELSE LET x1 == backward_subtract(self, lu_matrix, x, row, self.row_indptr_[row + 1] - 1)
             x2 == [x1 EXCEPT ![row] =
                       IF self.is_block
                       THEN backward_in_block(@, lu_matrix[self.diag_lu_[row]],
                                              block_size - 1, block_size - 1)
                       ELSE Div(@, lu_matrix[self.diag_lu_[row]])]
         IN  backward_substitution(self, lu_matrix, x2, row - 1)

\* lines 634-639: restore permutation for block matrix
restore_permutation(self, block_perm_array, x) ==
    IF self.is_block
    THEN Strict([row \in Range0(self.size_) |-> PermVec(block_perm_array[row].q, x[row])])
    ELSE x

\* the new content of x
solve_once(self, data, block_perm_array, rhs, x, same_buffer) ==
    restore_permutation(self, block_perm_array,
        backward_substitution(self, data,
            forward_substitution(self, data, block_perm_array, rhs, x, 0, same_buffer),
            self.size_ - 1))

(***************************************************************************)
(* Iterative refinement                                                    *)
(***************************************************************************)
\* std::numeric_limits<double>::max() = 1.8e308 = 1.8e-4 * T^-24
double_max == Fin(-24, 18, 0, 100000)

vector_zero(is_block) == IF is_block THEN VecZero ELSE Zero
vector_cabs(is_block, v) == IF is_block THEN Strict([r \in Range0(block_size) |-> cabs(v[r])])
                                        ELSE cabs(v)
tensor_cabs(is_block, a) ==
    IF is_block THEN Strict([r \in Range0(block_size) |-> Strict([c \in Range0(block_size) |-> cabs(a[r][c])])])
                ELSE cabs(a)

RECURSIVE vec_maxCoeff(_, _)
\* Eigen maxCoeff() of the coefficients 0 .. n-1, scanned from the first
vec_maxCoeff(v, n) ==
    IF n = 1 THEN v[0]
    ELSE LET res == vec_maxCoeff(v, n - 1)
         IN  IF Lt(res, v[n - 1]) THEN v[n - 1] ELSE res

max_val(is_block, v) == IF is_block THEN vec_maxCoeff(v, block_size) ELSE v

\* a faulty variant of reset_refinement_cache: the matrix cache is dropped too
reset_every_cache(self) ==
    [self EXCEPT !.dx_ = <<>>, !.residual_ = <<>>, !.rhs_ = <<>>,
                 !.original_matrix_ = <<>>, !.has_pivot_perturbation_ = FALSE]

reset_refinement_cache(self) ==
    [self EXCEPT !.dx_ = <<>>, !.residual_ = <<>>, !.rhs_ = <<>>]

\* a faulty variant of saved_rhs: the copy is taken after x is set to zero
saved_rhs_after_zeroing(rhs, x0, same_buffer) == IF same_buffer THEN x0 ELSE rhs

\* line 456, rhs_ = rhs: the copy is taken before lines 458-464 set x to x0
saved_rhs(rhs, x0, same_buffer) == rhs

\* lines 468 and 471, residual_ = rhs_ and dx_ = x
refinement_initialized(self, rhs_, x0) ==
    [self |-> [self EXCEPT !.rhs_ = <<rhs_>>, !.residual_ = <<rhs_>>, !.dx_ = <<x0>>],
     x |-> x0]

\* rhs_ = rhs; x = 0; residual_ = rhs_; dx_ = x
initialize_refinement(self, rhs, x, same_buffer) ==
    refinement_initialized(self,
        saved_rhs(rhs, Strict([row \in Range0(self.size_) |-> vector_zero(self.is_block)]),
                  same_buffer),
        Strict([row \in Range0(self.size_) |-> vector_zero(self.is_block)]))

RECURSIVE residual_row(_, _, _, _)
\* residual[row] = rhs[row], then -= dot(original_matrix[idx], x[col]) for idx < idx
residual_row(self, x, row, idx) ==
    IF idx = self.row_indptr_[row] THEN self.rhs_[1][row]
    ELSE vector_sub(self.is_block,
                    residual_row(self, x, row, idx - 1),
                    dot_vec(self.is_block, self.original_matrix_[1][idx - 1],
                            x[self.col_indices_[idx - 1]]))

\* the new self (residual_ recomputed)
calculate_residual(self, x) ==
    [self EXCEPT !.residual_ =
        <<Strict([row \in Range0(self.size_) |->
              residual_row(self, x, row, self.row_indptr_[row + 1])])>>]

RECURSIVE denominator_row(_, _, _, _)
\* denominator = cabs(rhs[row]), then += dot(cabs(original_matrix[idx]), cabs(x[col]))
denominator_row(self, x, row, idx) ==
    IF idx = self.row_indptr_[row] THEN vector_cabs(self.is_block, self.rhs_[1][row])
    ELSE vector_add(self.is_block,
                    denominator_row(self, x, row, idx - 1),
                    dot_vec(self.is_block,
                            tensor_cabs(self.is_block, self.original_matrix_[1][idx - 1]),
                            vector_cabs(self.is_block, x[self.col_indices_[idx - 1]])))

RECURSIVE max_denominator_upto(_, _, _)
\* max_denominator after the rows [0, row)
max_denominator_upto(self, all_denominators, row) ==
    IF row = 0 THEN Zero
    ELSE std_max(max_denominator_upto(self, all_denominators, row - 1),
                 max_val(self.is_block, all_denominators[row - 1]))

\* the denominator of a row capped to min_denominator, coefficient by coefficient
cap_denominator(is_block, denominator, min_denominator) ==
    IF is_block
    THEN Strict([br \in Range0(block_size) |-> std_max(denominator[br], min_denominator)])
    ELSE std_max(denominator, min_denominator)

vector_div(is_block, a, b) ==
    IF is_block THEN Strict([br \in Range0(block_size) |-> Div(a[br], b[br])]) ELSE Div(a, b)

RECURSIVE max_berr_upto(_, _, _, _)
\* max_berr after the rows [0, row)
max_berr_upto(self, all_denominators, min_denominator, row) ==
    IF row = 0 THEN Zero
    ELSE LET numerator == vector_cabs(self.is_block, self.residual_[1][row - 1])
             berr == vector_div(self.is_block, numerator,
                                cap_denominator(self.is_block, all_denominators[row - 1],
                                                min_denominator))
         IN  std_max(max_berr_upto(self, all_denominators, min_denominator, row - 1),
                     max_val(self.is_block, berr))

\* lines 512-533, the denominators of all rows being known
cap_and_iterate(self, x, all_denominators) ==
    [max_berr |-> max_berr_upto(self, all_denominators,
                                \* min_denominator
                                Mul(cap_back_error_denominator,
                                    max_denominator_upto(self, all_denominators, self.size_)),
                                self.size_),
     x |-> Strict([row \in Range0(self.size_) |->
               vector_add(self.is_block, x[row], self.dx_[1][row])])]

\* the backward error of x, and x iterated by dx_
iterate_and_backward_error(self, x) ==
    cap_and_iterate(self, x,
        Strict([row \in Range0(self.size_) |->
            denominator_row(self, x, row, self.row_indptr_[row + 1])]))

\* a faulty variant of iteration_limit_reached: one iteration late
iteration_limit_one_late(num_iter) == num_iter = max_iterative_refinement + 2

\* num_iter++ == max_iterative_refinement + 1 (line 434), on num_iter before the ++
iteration_limit_reached(num_iter) == num_iter = max_iterative_refinement + 1

RECURSIVE refinement_loop(_, _, _, _)
\* a faulty variant of residual_and_next: the residual is that of the x before
\* the correction
residual_and_next_stale(r, data, block_perm_array, epsilon_converge, self1, it) ==
    refinement_loop([r EXCEPT !.self = calculate_residual(self1, r.x),
                              !.x = it.x,
                              !.backward_error = it.max_berr,
                              !.num_iter = @ + 1,
                              !.n_solve_once = @ + 1,
                              !.backward_errors = Append(@, it.max_berr),
                              !.corrections = Append(@, self1.dx_[1])],
                    data, block_perm_array, epsilon_converge)

\* line 442: calculate_residual on the x that iterate_and_backward_error
\* left in it, and the next pass
residual_and_next(r, data, block_perm_array, epsilon_converge, self1, it) ==
    refinement_loop([r EXCEPT !.self = calculate_residual(self1, it.x),
                              !.x = it.x,
                              !.backward_error = it.max_berr,
                              !.num_iter = @ + 1,
                              !.n_solve_once = @ + 1,
                              !.backward_errors = Append(@, it.max_berr),
                              !.corrections = Append(@, self1.dx_[1])],
                    data, block_perm_array, epsilon_converge)

\* lines 440-442, self1 being the solver with the dx_ that solve_once left
iterate_from(r, data, block_perm_array, epsilon_converge, self1) ==
    IF self1.original_matrix_ = <<>>
    THEN \* original_matrix_.value() throws
         [r EXCEPT !.self = self1, !.num_iter = @ + 1,
                   !.n_solve_once = @ + 1, !.throws = "bad_optional_access"]
    ELSE residual_and_next(r, data, block_perm_array, epsilon_converge, self1,
                           iterate_and_backward_error(self1, r.x))

\* while (backward_error > epsilon_converge); r holds self, x, backward_error,
\* num_iter and what is counted of the run
refinement_loop(r, data, block_perm_array, epsilon_converge) ==
    IF ~Lt(epsilon_converge, r.backward_error) THEN r
    ELSE IF iteration_limit_reached(r.num_iter)
         THEN [r EXCEPT !.num_iter = @ + 1, !.throws = "SparseMatrixError"]
    ELSE iterate_from(r, data, block_perm_array, epsilon_converge,
             [r.self EXCEPT !.dx_ = <<solve_once(r.self, data, block_perm_array,
                                                 r.self.residual_[1], r.self.dx_[1],
                                                 FALSE)>>])

\* line 445: reset_refinement_cache, reached when the loop was not left by a throw
reset_unless_thrown(r) ==
    IF r.throws = "no" THEN [r EXCEPT !.self = reset_refinement_cache(r.self)] ELSE r

\* lines 427-445, init being what initialize_refinement left
refine_from(init, data, block_perm_array) ==
    reset_unless_thrown(
        refinement_loop([self |-> init.self, x |-> init.x,
                         backward_error |-> double_max, num_iter |-> 0,
                         n_solve_once |-> 0, backward_errors |-> <<>>,
                         corrections |-> <<>>, throws |-> "no"],
                        data, block_perm_array, epsilon_perturbation))

solve_with_refinement(self, data, block_perm_array, rhs, x, same_buffer) ==
    refine_from(initialize_refinement(self, rhs, x, same_buffer), data, block_perm_array)

\* line 229: what solve_with_refinement left in r, as the outcome of the solve
refined_solve(r) ==
    [self |-> r.self, x |-> r.x, throws |-> r.throws, refined |-> TRUE,
     n_solve_once |-> r.n_solve_once, backward_errors |-> r.backward_errors,
     corrections |-> r.corrections]

\* solve with existing pre-factorization
solve_with_prefactorized_matrix(self, data, block_perm_array, rhs, x, same_buffer) ==
    IF self.has_pivot_perturbation_
    THEN refined_solve(solve_with_refinement(self, data, block_perm_array, rhs, x,
                                             same_buffer))
    ELSE [self |-> self,
          x |-> solve_once(self, data, block_perm_array, rhs, x, same_buffer),
          throws |-> "no", refined |-> FALSE, n_solve_once |-> 1, backward_errors |-> <<>>,
          corrections |-> <<>>]

\* the outcome of prefactorize_and_solve when prefactorize left f and the solve r
solved_with(f, r) ==
    [self |-> r.self, data |-> f.data, block_perm_array |-> f.block_perm_array,
     x |-> r.x, throws |-> r.throws, pivot_log |-> f.pivot_log,
     block_log |-> f.block_log, index_log |-> f.index_log, solved |-> TRUE,
     refined |-> r.refined,
     n_solve_once |-> r.n_solve_once, backward_errors |-> r.backward_errors,
     corrections |-> r.corrections]

\* line 220, f being what prefactorize left: not reached when it threw
solve_after(f, rhs, x, same_buffer) ==
    IF f.throws
    THEN [self |-> f.self, data |-> f.data, block_perm_array |-> f.block_perm_array,
          x |-> x, throws |-> "SparseMatrixError", pivot_log |-> f.pivot_log,
          block_log |-> f.block_log, index_log |-> f.index_log, solved |-> FALSE,
          refined |-> FALSE, n_solve_once |-> 0,
          backward_errors |-> <<>>, corrections |-> <<>>]
    ELSE solved_with(f, solve_with_prefactorized_matrix(f.self, f.data, f.block_perm_array,
                                                        rhs, x, same_buffer))

\* prefactorize_and_solve: prefactorize, then solve_with_prefactorized_matrix
\* unless prefactorize threw
prefactorize_and_solve(self, data, block_perm_array, rhs, x, use_pivot_perturbation, same_buffer) ==
    solve_after(prefactorize(self, data, block_perm_array, use_pivot_perturbation), rhs, x,
                same_buffer)

(***************************************************************************)
(* The state machine: one SparseLUSolver and the buffers of its caller     *)
(***************************************************************************)
VARIABLES
    solver,            \* the SparseLUSolver object (its members)
    data,              \* the caller's matrix data, factorized in place
    block_perm_array,  \* the caller's permutation array
    x,                 \* the x buffer of the latest solve (<<>> before any)
    last_call,         \* the public function called last
    thrown,            \* the exception that call left with, "no" if it returned
    seen,              \* what is recorded of the latest prefactorize and solve
    pivot_call,        \* a direct call of perturb_pivot_if_needed: its arguments
    nr,                \* a NewtonRaphsonPFSolver, its grid and its caller's u
    tap,               \* the tap position optimizer's ranking: state, graph, result
    wrapper            \* a call of a C++ dataset wrapper and how it ended

vars == <<solver, data, block_perm_array, x, last_call, thrown, seen, pivot_call, nr, tap,
          wrapper>>

\* bound of the inputs drawn: the integers 0 .. MaxOff for the entries off the
\* diagonal
MaxOff == 1

\* 1e-26
Tiny == Fin(2, 1, 0, 1)

\* the pattern of the model: a full 2 x 2 (block) matrix
DensePattern ==
    [row_indptr |-> Vec(<<0, 2, 4>>), col_indices |-> Vec(<<0, 1, 0, 1>>),
     diag_lu |-> Vec(<<0, 3>>)]

\* SparseLUSolver(row_indptr, col_indices, diag_lu)
SparseLUSolver(is_block, row_indptr, col_indices, diag_lu) ==
    [is_block |-> is_block,
     size_ |-> Cardinality(DOMAIN row_indptr) - 1,
     nnz_ |-> row_indptr[Cardinality(DOMAIN row_indptr) - 1],
     row_indptr_ |-> row_indptr,
     col_indices_ |-> col_indices,
     diag_lu_ |-> diag_lu,
     has_pivot_perturbation_ |-> FALSE,
     matrix_norm_ |-> Zero,
     original_matrix_ |-> <<>>,
     dx_ |-> <<>>,
     residual_ |-> <<>>,
     rhs_ |-> <<>>]

\* a zero pivot, an ordinary one and one below epsilon times the ordinary one
DiagVals == {Zero, One, Tiny}
OffVals == {Num(i) : i \in 0 .. MaxOff}

Diag2(a, b) == Vec(<<Vec(<<a, Zero>>), Vec(<<Zero, b>>)>>)
BlockIdentity == Diag2(One, One)

\* the matrices a caller may pass: scalar entries, or 2 x 2 blocks
ScalarMatrices ==
    {Vec(<<a, o, o, d>>) : a \in {Zero, One}, o \in OffVals, d \in DiagVals}
BlockMatrices ==
    {Vec(<<Vec(<<Vec(<<a, b>>), Vec(<<c, d>>)>>), BlockIdentity, BlockIdentity,
           BlockIdentity>>) :
        a \in {Zero, One}, b \in OffVals, c \in {Zero, One}, d \in {One, Tiny}}
Matrices(is_block) == IF is_block THEN BlockMatrices ELSE ScalarMatrices

\* the right-hand sides a caller may pass
ScalarRhs == {Vec(<<One, Zero>>)}
BlockRhs == {Vec(<<Vec(<<One, Zero>>), Vec(<<Zero, One>>)>>)}
Rhs(is_block) == IF is_block THEN BlockRhs ELSE ScalarRhs

NoPrefactorize ==
    [use_pivot_perturbation |-> FALSE, input |-> <<>>, pivot_log |-> <<>>,
     block_log |-> <<>>, index_log |-> <<>>, throws |-> FALSE]
NoSolve ==
    [rhs |-> <<>>, refined |-> FALSE, n_solve_once |-> 0, backward_errors |-> <<>>,
     corrections |-> <<>>]

\* the permutation array a caller pre-allocates (nothing to hold for scalar entries)
PreAllocatedPerm(is_block) ==
    IF is_block
    THEN Strict([row \in Range0(2) |-> [p |-> setIdentity, q |-> setIdentity]])
    ELSE <<>>

\* no direct call of perturb_pivot_if_needed
NoPivotCall == [called |-> FALSE]

Init ==
    /\ \E is_block \in BOOLEAN :
           /\ solver = SparseLUSolver(is_block, DensePattern.row_indptr,
                                      DensePattern.col_indices, DensePattern.diag_lu)
           /\ block_perm_array = PreAllocatedPerm(is_block)
    /\ data = <<>>
    /\ x = <<>>
    /\ last_call = "none"
    /\ thrown = "no"
    /\ seen = [prefactorize |-> NoPrefactorize, solve |-> NoSolve]
    /\ pivot_call = NoPivotCall
    /\ nr = [last_call |-> "none"]
    /\ tap = [last_call |-> "none"]
    /\ wrapper = [last_call |-> "none"]

Prefactorize(A, use_pivot_perturbation) ==
    \E f \in {prefactorize(solver, A, block_perm_array, use_pivot_perturbation)} :
        /\ solver' = f.self
        /\ data' = f.data
        /\ block_perm_array' = f.block_perm_array
        /\ x' = <<>>
        /\ last_call' = "prefactorize"
        /\ thrown' = IF f.throws THEN "SparseMatrixError" ELSE "no"
        /\ seen' = [prefactorize |-> [use_pivot_perturbation |-> use_pivot_perturbation,
                                      input |-> <<A>>, pivot_log |-> f.pivot_log,
                                      block_log |-> f.block_log,
                                      index_log |-> f.index_log, throws |-> f.throws],
                    solve |-> NoSolve]
        /\ UNCHANGED <<pivot_call, nr, tap, wrapper>>

SolveWithPrefactorizedMatrix(rhs) ==
    /\ last_call # "none"
    /\ \E r \in {solve_with_prefactorized_matrix(solver, data, block_perm_array, rhs, rhs,
                                                 TRUE)} :
           /\ solver' = r.self
           /\ x' = r.x
           /\ last_call' = "solve_with_prefactorized_matrix"
           /\ thrown' = r.throws
           /\ seen' = [seen EXCEPT !.solve = [rhs |-> <<rhs>>, refined |-> r.refined,
                                              n_solve_once |-> r.n_solve_once,
                                              backward_errors |-> r.backward_errors,
                                              corrections |-> r.corrections]]
    /\ UNCHANGED <<data, block_perm_array, pivot_call, nr, tap, wrapper>>

PrefactorizeAndSolve(A, rhs, use_pivot_perturbation) ==
    \E r \in {prefactorize_and_solve(solver, A, block_perm_array, rhs, rhs,
                                      use_pivot_perturbation, TRUE)} :
        /\ solver' = r.self
        /\ data' = r.data
        /\ block_perm_array' = r.block_perm_array
        /\ x' = IF r.solved THEN r.x ELSE <<>>
        /\ last_call' = "prefactorize_and_solve"
        /\ thrown' = r.throws
        /\ seen' = [prefactorize |-> [use_pivot_perturbation |-> use_pivot_perturbation,
                                      input |-> <<A>>, pivot_log |-> r.pivot_log,
                                      block_log |-> r.block_log,
                                      index_log |-> r.index_log, throws |-> ~r.solved],
                    solve |-> IF r.solved
                              THEN [rhs |-> <<rhs>>, refined |-> r.refined,
                                    n_solve_once |-> r.n_solve_once,
                                    backward_errors |-> r.backward_errors,
                                    corrections |-> r.corrections]
                              ELSE NoSolve]
        /\ UNCHANGED <<pivot_call, nr, tap, wrapper>>

Next ==
    \/ \E A \in Matrices(solver.is_block), use \in BOOLEAN : Prefactorize(A, use)
    \/ \E rhs \in Rhs(solver.is_block) : SolveWithPrefactorizedMatrix(rhs)
    \/ \E A \in Matrices(solver.is_block), use \in BOOLEAN :
           \E rhs \in Rhs(solver.is_block) : PrefactorizeAndSolve(A, rhs, use)

Spec == Init /\ [][Next]_vars

(***************************************************************************)
(* perturb_pivot_if_needed called on its own: the three arguments passed   *)
(* by reference are the fields value, abs_value and has_pivot_perturbation *)
(* of pivot_call, changed in place; `before` keeps what they were.         *)
(***************************************************************************)
MaxExp == 2
MaxMant == 2

PivotVals == {Fin(l, p, 0, 1) : l \in 0 .. MaxExp, p \in (-MaxMant) .. MaxMant}
Thresholds == {Fin(l, p, 0, 1) : l \in 0 .. MaxExp, p \in 0 .. MaxMant}

InitPerturb ==
    /\ solver = SparseLUSolver(FALSE, DensePattern.row_indptr,
                               DensePattern.col_indices, DensePattern.diag_lu)
    /\ block_perm_array = PreAllocatedPerm(FALSE)
    /\ data = <<>>
    /\ x = <<>>
    /\ last_call = "none"
    /\ thrown = "no"
    /\ seen = [prefactorize |-> NoPrefactorize, solve |-> NoSolve]
    /\ \E value \in PivotVals, perturb_threshold \in Thresholds, flag \in BOOLEAN :
           pivot_call = [called |-> FALSE,
                         perturb_threshold |-> perturb_threshold,
                         value |-> value,
                         abs_value |-> cabs(value),
                         has_pivot_perturbation |-> flag,
                         before |-> <<>>]
    /\ nr = [last_call |-> "none"]
    /\ tap = [last_call |-> "none"]
    /\ wrapper = [last_call |-> "none"]

PerturbPivotIfNeeded ==
    /\ \E pp \in {perturb_pivot_if_needed(pivot_call.perturb_threshold, pivot_call.value,
                                           pivot_call.abs_value,
                                           pivot_call.has_pivot_perturbation)} :
           pivot_call' = [called |-> TRUE,
                          perturb_threshold |-> pivot_call.perturb_threshold,
                          value |-> pp.value,
                          abs_value |-> pp.abs_value,
                          has_pivot_perturbation |-> pp.has_pivot_perturbation,
                          before |-> <<[value |-> pivot_call.value,
                                        abs_value |-> pivot_call.abs_value,
                                        has_pivot_perturbation |->
                                            pivot_call.has_pivot_perturbation]>>]
    /\ UNCHANGED <<solver, data, block_perm_array, x, last_call, thrown, seen, nr, tap, wrapper>>

NextPerturb == PerturbPivotIfNeeded

SpecPerturb == InitPerturb /\ [][NextPerturb]_vars

(***************************************************************************)
(* prefactorize over sparsity patterns: every structurally symmetric       *)
(* pattern of MaxBus rows with the diagonal present and the columns of     *)
(* each row ascending, given by the set E of its entries above the         *)
(* diagonal.                                                               *)
(***************************************************************************)
MaxBus == 3

Edges(n) == {e \in Range0(n) \X Range0(n) : e[1] < e[2]}

\* the columns present in a row: the diagonal and both directions of each entry
RowCols(E, n, row) ==
    {col \in Range0(n) : col = row \/ <<row, col>> \in E \/ <<col, row>> \in E}

RECURSIVE Ascending(_)
\* the elements of a set of integers in ascending order
Ascending(S) ==
    IF S = {} THEN <<>>
    ELSE LET m == CHOOSE a \in S : \A b \in S : a <= b
         IN  <<m>> \o Ascending(S \ {m})

RECURSIVE RowsFrom(_, _, _)
\* col_indices of the rows row .. n-1, one row after the other
RowsFrom(E, n, row) ==
    IF row = n THEN <<>> ELSE Ascending(RowCols(E, n, row)) \o RowsFrom(E, n, row + 1)

\* the three arrays of the compressed sparse row format
PatternOf(E, n) ==
    [row_indptr |-> Strict([row \in Range0(n + 1) |-> Len(RowsFrom(E, n, 0)) -
                                                         Len(RowsFrom(E, n, row))]),
     col_indices |-> Vec(RowsFrom(E, n, 0)),
     diag_lu |-> Strict([row \in Range0(n) |->
                     Len(RowsFrom(E, n, 0)) - Len(RowsFrom(E, n, row)) +
                     Cardinality({col \in RowCols(E, n, row) : col < row})])]

Patterns == {PatternOf(E, MaxBus) : E \in SUBSET Edges(MaxBus)}

\* diagonally dominant matrices on the pattern of a solver: d on the diagonal,
\* o off it (d * I and o * I for blocks)
PatternEntry(self, idx, d, o) ==
    IF self.is_block
    THEN (IF idx \in {self.diag_lu_[row] : row \in Range0(self.size_)}
          THEN Diag2(d, d) ELSE Diag2(o, o))
    ELSE (IF idx \in {self.diag_lu_[row] : row \in Range0(self.size_)} THEN d ELSE o)

PatternMatrices(self) ==
    {Strict([idx \in Range0(self.nnz_) |-> PatternEntry(self, idx, d, o)]) :
        d \in {Num(2), Num(3)}, o \in {Zero, One}}

InitPattern ==
    /\ \E is_block \in BOOLEAN, pattern \in Patterns :
           /\ solver = SparseLUSolver(is_block, pattern.row_indptr, pattern.col_indices,
                                      pattern.diag_lu)
           /\ block_perm_array =
                  IF is_block
                  THEN Strict([row \in Range0(MaxBus) |->
                                  [p |-> setIdentity, q |-> setIdentity]])
                  ELSE <<>>
    /\ data = <<>>
    /\ x = <<>>
    /\ last_call = "none"
    /\ thrown = "no"
    /\ seen = [prefactorize |-> NoPrefactorize, solve |-> NoSolve]
    /\ pivot_call = NoPivotCall
    /\ nr = [last_call |-> "none"]
    /\ tap = [last_call |-> "none"]
    /\ wrapper = [last_call |-> "none"]

NextPattern == \E A \in PatternMatrices(solver), use \in BOOLEAN : Prefactorize(A, use)

SpecPattern == InitPattern /\ [][NextPattern]_vars

(***************************************************************************)
(* NewtonRaphsonPFSolver<symmetric_t> (newton_raphson_pf_solver.hpp).      *)
(* A complex number is a record of two doubles.  An angle is a double of   *)
(* which the model keeps the multiple of pi/2 it holds apart from the      *)
(* rest: turns * pi/2 + rad.  exp, arg and the modulus are exact where     *)
(* the model computes them: on the real and the imaginary axis.            *)
(***************************************************************************)
Complex(re, im) == [re |-> re, im |-> im]
CZero == Complex(Zero, Zero)
real(z) == z.re
imag(z) == z.im
conj(z) == Complex(z.re, Neg(z.im))
CNeg(z) == Complex(Neg(z.re), Neg(z.im))
CAdd(a, b) == Complex(Add(a.re, b.re), Add(a.im, b.im))
CSub(a, b) == Complex(Sub(a.re, b.re), Sub(a.im, b.im))
CMul(a, b) ==
    Complex(Sub(Mul(a.re, b.re), Mul(a.im, b.im)), Add(Mul(a.re, b.im), Mul(a.im, b.re)))
\* a double times a complex number
CScale(s, z) == Complex(Mul(s, z.re), Mul(s, z.im))

Angle(turns, rad) == [turns |-> turns, rad |-> rad]

\* cabs of a complex number on one of the axes
complex_cabs(z) ==
    CASE IsZero(z.im) -> cabs(z.re)
      [] IsZero(z.re) -> cabs(z.im)

\* arg of a complex number on one of the axes, in (-pi, pi]; arg(0) = 0
arg(z) ==
    CASE IsZero(z.im) /\ Sign(z.re) >= 0 -> Angle(0, Zero)
      [] IsZero(z.im) /\ Sign(z.re) < 0 -> Angle(2, Zero)
      [] IsZero(z.re) /\ Sign(z.im) > 0 -> Angle(1, Zero)
      [] IsZero(z.re) /\ Sign(z.im) < 0 -> Angle(-1, Zero)

\* exp(1.0i * theta) of a whole multiple of pi/2
exp_i(theta) ==
    CASE IsZero(theta.rad) /\ theta.turns % 4 = 0 -> Complex(One, Zero)
      [] IsZero(theta.rad) /\ theta.turns % 4 = 1 -> Complex(Zero, One)
      [] IsZero(theta.rad) /\ theta.turns % 4 = 2 -> Complex(Neg(One), Zero)
      [] IsZero(theta.rad) /\ theta.turns % 4 = 3 -> Complex(Zero, Neg(One))

\* PFJacBlock: [[h, n], [m, l]]
PFJacBlock(h, n, m, l) == Vec(<<Vec(<<h, n>>), Vec(<<m, l>>)>>)
\* PolarPhasor as complex power: (p, q); as increment: (theta, v)
ComplexPower(p, q) == Vec(<<p, q>>)

\* lines 306-315, yij * conj being one complex number for symmetric_t
hnml_of(power_flow_ij) ==
    PFJacBlock(imag(power_flow_ij), real(power_flow_ij),
               Neg(real(power_flow_ij)), imag(power_flow_ij))

calculate_hnml(yij, ui, uj) == hnml_of(CMul(CMul(ui, conj(uj)), conj(yij)))

\* add_diag(block.h(), dh), ... on a block of symmetric_t
add_to_block(block, dh, dn, dm, dl) ==
    PFJacBlock(Add(block[0][0], dh), Add(block[0][1], dn),
               Add(block[1][0], dm), Add(block[1][1], dl))

RECURSIVE network_row(_, _, _, _, _)
\* lines 337-343: the block of a position of Y and its part of the injection
network_entry(y_bus, u, st, row, k, block) ==
    network_row(y_bus, u,
        [st EXCEPT !.data_jac_[k] = block,
                   !.del_x_pq_[row] = ComplexPower(Sub(@[0], block[0][1]),
                                                   Sub(@[1], block[0][0]))],
        row, k + 1)

\* a faulty variant of fill_in_block: the block of a fill-in is left as it was
fill_in_block_kept(data_jac_, k) == data_jac_

\* lines 332-335: the block of a fill-in is set to zero
fill_in_block(data_jac_, k) == [data_jac_ EXCEPT ![k] = BlockZero]

\* lines 329-344: for (k = indptr[row]; k != indptr[row + 1]; ++k), from k on
network_row(y_bus, u, st, row, k) ==
    IF k = y_bus.row_indptr_lu[row + 1] THEN st
    ELSE IF y_bus.map_lu_y_bus[k] = -1
         THEN network_row(y_bus, u,
                  [st EXCEPT !.data_jac_ = fill_in_block(@, k)], row, k + 1)
    ELSE network_entry(y_bus, u, st, row, k,
             calculate_hnml(y_bus.admittance[y_bus.map_lu_y_bus[k]], u[row],
                            u[y_bus.col_indices_lu[k]]))

\* lines 345-356: the diagonal block corrected with the negative injection (p, q)
diagonal_correction(st, k, p, q) ==
    [st EXCEPT !.data_jac_[k] = add_to_block(@, q, Neg(p), Neg(p), Neg(q))]

\* a faulty variant of reset_injection: the row keeps what the buffer held
reset_injection_skipped(del_x_pq_, row) == del_x_pq_

\* lines 326-327
reset_injection(del_x_pq_, row) == [del_x_pq_ EXCEPT ![row] = ComplexPower(Zero, Zero)]

RECURSIVE network_rows(_, _, _, _)
\* lines 323-357: for (row = 0; row != n_bus_; ++row), from row on; st.network
\* keeps what the loop left
network_row_done(y_bus, u, st, row) ==
    network_rows(y_bus, u,
        diagonal_correction(st, y_bus.lu_diag[row], st.del_x_pq_[row][0],
                            st.del_x_pq_[row][1]),
        row + 1)

network_rows(y_bus, u, st, row) ==
    IF row = y_bus.size THEN st
    ELSE network_row_done(y_bus, u,
             network_row(y_bus, u,
                 [st EXCEPT !.del_x_pq_ = reset_injection(@, row)],
                 row, y_bus.row_indptr_lu[row]),
             row)

prepare_matrix_and_rhs_from_network_perspective(y_bus, u, st) ==
    network_rows(y_bus, u, st, 0)

\* what a load adds: (dp, dq) to del_x_pq_[bus_number] and (dn, dl) to n and l of
\* the diagonal block
add_load(st, bus_number, diagonal_position, dp, dq, dn, dl) ==
    [st EXCEPT !.del_x_pq_[bus_number] = ComplexPower(Add(@[0], dp), Add(@[1], dq)),
               !.data_jac_[diagonal_position] = add_to_block(@, Zero, dn, Zero, dl)]

\* lines 384-389
add_const_power_load(st, bus_number, s_injection) ==
    [st EXCEPT !.del_x_pq_[bus_number] =
                   ComplexPower(Add(@[0], real(s_injection)), Add(@[1], imag(s_injection)))]

\* lines 391-401, v being x_[bus_number].v()
add_const_impedance_load(st, bus_number, diagonal_position, s_injection, v) ==
    add_load(st, bus_number, diagonal_position,
             Mul(Mul(real(s_injection), v), v), Mul(Mul(imag(s_injection), v), v),
             Mul(Mul(Mul(Neg(real(s_injection)), Num(2)), v), v),
             Mul(Mul(Mul(Neg(imag(s_injection)), Num(2)), v), v))

\* a faulty variant of add_const_current_load: the power scales with v * v
add_const_current_load_squared(st, bus_number, diagonal_position, s_injection, v) ==
    add_load(st, bus_number, diagonal_position,
             Mul(Mul(real(s_injection), v), v), Mul(Mul(imag(s_injection), v), v),
             Mul(Neg(real(s_injection)), v), Mul(Neg(imag(s_injection)), v))

\* lines 403-411
add_const_current_load(st, bus_number, diagonal_position, s_injection, v) ==
    add_load(st, bus_number, diagonal_position,
             Mul(real(s_injection), v), Mul(imag(s_injection), v),
             Mul(Neg(real(s_injection)), v), Mul(Neg(imag(s_injection)), v))

\* a faulty variant of is_known_type: const_i is not among the cases
is_known_type_without_const_i(type) == type \in {"const_pq", "const_y"}

\* lines 368-380: the cases of the switch; any other type reaches the default
is_known_type(type) == type \in {"const_pq", "const_y", "const_i"}

\* lines 366-381: one pass of the loop over the loads of a bus
add_one_load(st, bus_number, diagonal_position, s_injection, v, type) ==
    IF ~is_known_type(type) THEN [st EXCEPT !.throws = "MissingCaseForEnumError"]
    ELSE CASE type = "const_pq" -> add_const_power_load(st, bus_number, s_injection)
           [] type = "const_y" ->
                  add_const_impedance_load(st, bus_number, diagonal_position, s_injection, v)
           [] OTHER ->
                  add_const_current_load(st, bus_number, diagonal_position, s_injection, v)

RECURSIVE add_loads(_, _, _, _, _, _)
\* lines 362-382: load_gens is the sequence of the load numbers of the bus, i the
\* next one to take; the loop is left by the throw
add_loads(grid, x_, st, bus_number, load_gens, i) ==
    IF i > Len(load_gens) \/ st.throws # "no" THEN st
    ELSE add_loads(grid, x_,
             add_one_load(st, bus_number, grid.lu_diag[bus_number],
                          grid.s_injection[load_gens[i]], x_[bus_number].v,
                          grid.load_gen_type[load_gens[i]]),
             bus_number, load_gens, i + 1)

\* a faulty variant of source_added: the block of the source replaces the
\* diagonal block
source_added_overwriting(st, bus_number, diagonal_position, block_mm, p_cal, q_cal) ==
    [st EXCEPT !.del_x_pq_[bus_number] = ComplexPower(Sub(@[0], p_cal), Sub(@[1], q_cal)),
               !.data_jac_[diagonal_position] =
                   add_to_block(BlockZero, Add(block_mm[0][0], Neg(q_cal)),
                                Add(block_mm[0][1], p_cal),
                                Add(block_mm[1][0], p_cal),
                                Add(block_mm[1][1], q_cal))]

\* lines 427-438: block_mm corrected, subtracted from del_x_pq_ and added to the
\* diagonal block
source_added(st, bus_number, diagonal_position, block_mm, p_cal, q_cal) ==
    [st EXCEPT !.del_x_pq_[bus_number] = ComplexPower(Sub(@[0], p_cal), Sub(@[1], q_cal)),
               !.data_jac_[diagonal_position] =
                   add_to_block(@, Add(block_mm[0][0], Neg(q_cal)),
                                Add(block_mm[0][1], p_cal),
                                Add(block_mm[1][0], p_cal),
                                Add(block_mm[1][1], q_cal))]

\* lines 416-425
add_one_source(st, bus_number, diagonal_position, block_mm, block_ms) ==
    source_added(st, bus_number, diagonal_position, block_mm,
                 Add(block_mm[0][1], block_ms[0][1]), Add(block_mm[0][0], block_ms[0][0]))

RECURSIVE add_sources(_, _, _, _, _, _)
\* lines 413-441: sources is the sequence of the source numbers of the bus
add_sources(grid, u, st, bus_number, sources, i) ==
    IF i > Len(sources) \/ st.throws # "no" THEN st
    ELSE add_sources(grid, u,
             add_one_source(st, bus_number, grid.lu_diag[bus_number],
                 calculate_hnml(grid.y_ref[sources[i]], u[bus_number], u[bus_number]),
                 calculate_hnml(CNeg(grid.y_ref[sources[i]]), u[bus_number],
                                grid.source[sources[i]])),
             bus_number, sources, i + 1)

RECURSIVE loads_and_sources(_, _, _, _, _)
\* lines 252-257: the loads and the sources of the buses from bus_number on
loads_and_sources(grid, x_, u, st, bus_number) ==
    IF bus_number = grid.size \/ st.throws # "no" THEN st
    ELSE loads_and_sources(grid, x_, u,
             add_sources(grid, u,
                 add_loads(grid, x_, st, bus_number,
                           grid.load_gens_per_bus[bus_number], 1),
                 bus_number, grid.sources_per_bus[bus_number], 1),
             bus_number + 1)

\* lines 245-258; st holds data_jac_ and del_x_pq_, and as st.network what the
\* network part left of them
network_kept(st) == [st EXCEPT !.network = <<st.data_jac_, st.del_x_pq_>>]

prepare_matrix_and_rhs(grid, x_, u, st) ==
    loads_and_sources(grid, x_, u,
        network_kept(prepare_matrix_and_rhs_from_network_perspective(grid, u, st)), 0)

\* a faulty variant of initial_polar: the magnitude is taken from the real part
initial_polar_real_part(u_i) == [theta |-> arg(u_i), v |-> real(u_i)]

\* lines 239-240: x_[i].v() = cabs(output.u[i]); x_[i].theta() = arg(output.u[i])
initial_polar(u_i) == [theta |-> arg(u_i), v |-> complex_cabs(u_i)]

\* lines 237-241
initialize_derived_solver(self, output_u) ==
    [self EXCEPT !.x_ = Strict([i \in Range0(self.grid.size) |-> initial_polar(output_u[i])]),
                 !.u = output_u,
                 !.last_call = "initialize"]

\* line 261, r being what prefactorize_and_solve left: del_x_pq_ is both rhs and x
matrix_solved(self, r) ==
    [self EXCEPT !.sparse_solver_ = r.self,
                 !.data_jac_ = r.data,
                 !.perm_ = r.block_perm_array,
                 !.del_x_pq_ = r.x,
                 !.thrown = r.throws,
                 !.seen = <<[solved |-> r.solved, refined |-> r.refined,
                             n_solve_once |-> r.n_solve_once, pivot_log |-> r.pivot_log,
                             block_log |-> r.block_log]>>,
                 !.last_call = "solve_matrix"]

\* a faulty variant of solve_matrix: pivot perturbation is asked for
solve_matrix_perturbing(self) ==
    matrix_solved(self,
        prefactorize_and_solve(self.sparse_solver_, self.data_jac_, self.perm_,
                               self.del_x_pq_, self.del_x_pq_, TRUE, TRUE))

solve_matrix(self) ==
    matrix_solved(self,
        prefactorize_and_solve(self.sparse_solver_, self.data_jac_, self.perm_,
                               self.del_x_pq_, self.del_x_pq_, FALSE, TRUE))

\* x_[i].theta() += del_x_pq_[i].theta()
add_to_angle(theta, del_theta) == Angle(theta.turns, Add(theta.rad, del_theta))

\* line 270: x_[i].v() += x_[i].v() * del_x_pq_[i].v()
magnitude_update(v, del_v) == Add(v, Mul(v, del_v))

\* a faulty variant of deviation: relative to the magnitude of the new phasor
deviation_relative(u_tmp, u_i) == Div(complex_cabs(CSub(u_tmp, u_i)), complex_cabs(u_tmp))

\* line 275: max_val(cabs(u_tmp - u[i]))
deviation(u_tmp, u_i) == complex_cabs(CSub(u_tmp, u_i))

RECURSIVE iterate_bus(_, _)
\* lines 273-278, u_tmp being the new phasor of bus i
phasor_assigned(st, i, theta, v, u_tmp) ==
    iterate_bus([st EXCEPT !.x_[i] = [theta |-> theta, v |-> v],
                           !.max_dev = std_max(deviation(u_tmp, st.u[i]), @),
                           !.u[i] = u_tmp],
                i + 1)

\* a faulty variant of polar_updated: the phasor turns the other way
polar_updated_conjugate(st, i, theta, v) ==
    phasor_assigned(st, i, theta, v, conj(CScale(v, exp_i(theta))))

\* lines 268-273, theta and v being the updated x_[i]
polar_updated(st, i, theta, v) == phasor_assigned(st, i, theta, v, CScale(v, exp_i(theta)))

\* lines 266-279: for (i = 0; i != n_bus_; ++i), from i on
iterate_bus(st, i) ==
    IF i = st.grid.size THEN st
    ELSE polar_updated(st, i, add_to_angle(st.x_[i].theta, st.del_x_pq_[i][0]),
                       magnitude_update(st.x_[i].v, st.del_x_pq_[i][1]))

\* lines 264-282: max_dev is what it returns, u the caller's vector
iterate_unknown(self) ==
    iterate_bus([self EXCEPT !.max_dev = Zero, !.last_call = "iterate_unknown"], 0)

(***************************************************************************)
(* The Newton-Raphson solver as a state machine: nr holds the members of   *)
(* one NewtonRaphsonPFSolver, the grid it was built for (y_bus, topology   *)
(* and input) and the caller's vector u.                                   *)
(***************************************************************************)
\* the iteration cap of the caller: the rounds of prepare_matrix_and_rhs,
\* solve_matrix and iterate_unknown it runs at most
max_iter == 2

Half == Fin(0, 1, 0, 2)
TwoThirds == Fin(0, 2, 0, 3)
Tenth == Fin(0, 1, 0, 10)

\* a load or generator: its type and its base power
Load(type, s_injection) == [type |-> type, s_injection |-> s_injection]

\* the reference voltage of the sources: one per unit, turned by turns * pi/2
Reference(turns) == exp_i(Angle(turns, Zero))

\* one bus without shunt carrying a source of admittance 1 and the loads given
SingleBus(turns, loads) ==
    [size |-> 1,
     row_indptr_lu |-> Vec(<<0, 1>>), col_indices_lu |-> Vec(<<0>>), lu_diag |-> Vec(<<0>>),
     map_lu_y_bus |-> Vec(<<0>>), admittance |-> Vec(<<CZero>>),
     load_gens_per_bus |-> Vec(<<[i \in DOMAIN loads |-> i - 1]>>),
     load_gen_type |-> Vec([i \in DOMAIN loads |-> loads[i].type]),
     s_injection |-> Vec([i \in DOMAIN loads |-> loads[i].s_injection]),
     sources_per_bus |-> Vec(<< <<0>> >>),
     y_ref |-> Vec(<<Complex(One, Zero)>>),
     source |-> Vec(<<Reference(turns)>>)]

\* three buses, branches of admittance 1 from bus 0 to bus 1 and to bus 2, the
\* source at bus 0, the loads at bus 1; (1, 2) and (2, 1) are fill-ins of the LU
ThreeBus(turns, loads) ==
    [size |-> 3,
     row_indptr_lu |-> Vec(<<0, 3, 6, 9>>),
     col_indices_lu |-> Vec(<<0, 1, 2, 0, 1, 2, 0, 1, 2>>),
     lu_diag |-> Vec(<<0, 4, 8>>),
     map_lu_y_bus |-> Vec(<<0, 1, 2, 3, 4, -1, 5, -1, 6>>),
     admittance |-> Vec(<<Complex(Num(2), Zero), Complex(Num(-1), Zero),
                          Complex(Num(-1), Zero), Complex(Num(-1), Zero),
                          Complex(One, Zero), Complex(Num(-1), Zero),
                          Complex(One, Zero)>>),
     load_gens_per_bus |-> Vec(<< <<>>, [i \in DOMAIN loads |-> i - 1], <<>> >>),
     load_gen_type |-> Vec([i \in DOMAIN loads |-> loads[i].type]),
     s_injection |-> Vec([i \in DOMAIN loads |-> loads[i].s_injection]),
     sources_per_bus |-> Vec(<< <<0>>, <<>>, <<>> >>),
     y_ref |-> Vec(<<Complex(One, Zero)>>),
     source |-> Vec(<<Reference(turns)>>)]

\* two buses without branch, each carrying a source of admittance 1 and its loads
TwoBus(turns, loads0, loads1) ==
    [size |-> 2,
     row_indptr_lu |-> Vec(<<0, 1, 2>>), col_indices_lu |-> Vec(<<0, 1>>),
     lu_diag |-> Vec(<<0, 1>>),
     map_lu_y_bus |-> Vec(<<0, 1>>), admittance |-> Vec(<<CZero, CZero>>),
     load_gens_per_bus |-> Vec(<<[i \in DOMAIN loads0 |-> i - 1],
                                 [i \in DOMAIN loads1 |-> Len(loads0) + i - 1]>>),
     load_gen_type |-> Vec([i \in DOMAIN (loads0 \o loads1) |-> (loads0 \o loads1)[i].type]),
     s_injection |-> Vec([i \in DOMAIN (loads0 \o loads1) |->
                             (loads0 \o loads1)[i].s_injection]),
     sources_per_bus |-> Vec(<< <<0>>, <<1>> >>),
     y_ref |-> Vec(<<Complex(One, Zero), Complex(One, Zero)>>),
     source |-> Vec(<<Reference(turns), Reference(turns)>>)]

\* a grid without buses
EmptyGrid ==
    [size |-> 0,
     row_indptr_lu |-> Vec(<<0>>), col_indices_lu |-> <<>>, lu_diag |-> <<>>,
     map_lu_y_bus |-> <<>>, admittance |-> <<>>,
     load_gens_per_bus |-> <<>>, load_gen_type |-> <<>>, s_injection |-> <<>>,
     sources_per_bus |-> <<>>, y_ref |-> <<>>, source |-> <<>>]

KnownTypes == {"const_pq", "const_y", "const_i"}
\* the grids of the iteration: at most one load, of active power only
ActiveLoads == {<<>>} \cup {<<Load(type, Complex(p, Zero))>> : type \in KnownTypes,
                                                               p \in {Num(-2), Neg(Half)}}
Grids ==
    {EmptyGrid} \cup {SingleBus(turns, loads) : turns \in {-1, 0, 1, 2}, loads \in ActiveLoads}
                \cup {TwoBus(turns, loads0, loads1) :
                          turns \in {0, 1}, loads0 \in ActiveLoads, loads1 \in ActiveLoads}
                \cup {ThreeBus(turns, <<>>) : turns \in {0, 1}}

\* what the linear solve of initialize_derived_solver (lines 227-235) left in
\* output.u: every bus at the reference voltage of the source when the grid
\* carries no load, and at the reference voltage, two thirds or half of it when
\* it carries one.  Two thirds is what the linear solve gives one bus with a
\* source of admittance 1 and a load of active power -1/2 taken as an admittance:
\* (y_ref - conj(s)) u = y_ref u_ref.
StartMagnitudes(grid) == IF grid.s_injection = <<>> THEN {One} ELSE {Half, TwoThirds, One}
StartVoltages(grid) ==
    IF grid.size = 0 THEN {<<>>}
    ELSE {Strict([i \in Range0(grid.size) |-> CScale(magnitude, grid.source[0])]) :
              magnitude \in StartMagnitudes(grid)}

\* NewtonRaphsonPFSolver(y_bus, topo_ptr), lines 214-220
NewtonRaphsonPFSolver(grid) ==
    [grid |-> grid,
     seen |-> <<>>,
     data_jac_ |-> Strict([k \in Range0(grid.row_indptr_lu[grid.size]) |-> BlockZero]),
     x_ |-> Strict([i \in Range0(grid.size) |-> [theta |-> Angle(0, Zero), v |-> Zero]]),
     del_x_pq_ |-> Strict([i \in Range0(grid.size) |-> ComplexPower(Zero, Zero)]),
     sparse_solver_ |-> SparseLUSolver(TRUE, grid.row_indptr_lu, grid.col_indices_lu,
                                       grid.lu_diag),
     perm_ |-> Strict([i \in Range0(grid.size) |-> [p |-> setIdentity, q |-> setIdentity]]),
     u |-> <<>>,
     max_dev |-> Zero,
     thrown |-> "no",
     last_call |-> "none",
     round |-> 0,
     network |-> <<>>,
     before |-> <<>>]

\* prepare_matrix_and_rhs left st: before keeps the members as they were
prepared(self, st) ==
    [self EXCEPT !.data_jac_ = st.data_jac_,
                 !.del_x_pq_ = st.del_x_pq_,
                 !.thrown = st.throws,
                 !.network = st.network,
                 !.before = <<[data_jac_ |-> self.data_jac_, del_x_pq_ |-> self.del_x_pq_,
                               again |-> self.last_call = "prepare_matrix_and_rhs",
                               dirty |-> IF self.last_call = "prepare_matrix_and_rhs"
                                         THEN self.before[1].dirty
                                         ELSE [data_jac_ |-> self.data_jac_,
                                               del_x_pq_ |-> self.del_x_pq_]]>>,
                 !.last_call = "prepare_matrix_and_rhs",
                 !.round = IF self.last_call = "prepare_matrix_and_rhs" THEN @ ELSE @ + 1]

\* solve_matrix or iterate_unknown left self: before keeps the members as they were
stepped(self, next) ==
    [next EXCEPT !.before = <<[x_ |-> self.x_, u |-> self.u, del_x_pq_ |-> self.del_x_pq_,
                               rhs |-> IF self.last_call = "solve_matrix"
                                       THEN self.before[1].del_x_pq_
                                       ELSE <<>>]>>]

IdleSparseLU ==
    /\ solver = SparseLUSolver(FALSE, DensePattern.row_indptr, DensePattern.col_indices,
                               DensePattern.diag_lu)
    /\ block_perm_array = PreAllocatedPerm(FALSE)
    /\ data = <<>>
    /\ x = <<>>
    /\ last_call = "none"
    /\ thrown = "no"
    /\ seen = [prefactorize |-> NoPrefactorize, solve |-> NoSolve]
    /\ pivot_call = NoPivotCall

InitNR ==
    /\ IdleSparseLU
    /\ tap = [last_call |-> "none"]
    /\ wrapper = [last_call |-> "none"]
    /\ \E grid \in Grids : nr = NewtonRaphsonPFSolver(grid)

Initialize(output_u) ==
    /\ nr.last_call = "none"
    /\ nr' = initialize_derived_solver(nr, output_u)
    /\ UNCHANGED <<solver, data, block_perm_array, x, last_call, thrown, seen, pivot_call,
                 tap, wrapper>>

PrepareMatrixAndRhs ==
    /\ \/ nr.last_call \in {"initialize", "iterate_unknown"} /\ nr.round < max_iter
       \/ nr.last_call = "prepare_matrix_and_rhs"
    /\ nr.thrown = "no"
    /\ nr' = prepared(nr, prepare_matrix_and_rhs(nr.grid, nr.x_, nr.u,
                              [data_jac_ |-> nr.data_jac_, del_x_pq_ |-> nr.del_x_pq_,
                               throws |-> "no", network |-> <<>>]))
    /\ UNCHANGED <<solver, data, block_perm_array, x, last_call, thrown, seen, pivot_call,
                 tap, wrapper>>

SolveMatrix ==
    /\ nr.last_call = "prepare_matrix_and_rhs"
    /\ nr.thrown = "no"
    /\ nr' = stepped(nr, solve_matrix(nr))
    /\ UNCHANGED <<solver, data, block_perm_array, x, last_call, thrown, seen, pivot_call,
                 tap, wrapper>>

IterateUnknown ==
    /\ nr.last_call = "solve_matrix"
    /\ nr.thrown = "no"
    /\ nr' = stepped(nr, iterate_unknown(nr))
    /\ UNCHANGED <<solver, data, block_perm_array, x, last_call, thrown, seen, pivot_call,
                 tap, wrapper>>

NextNR ==
    \/ \E output_u \in StartVoltages(nr.grid) : Initialize(output_u)
    \/ PrepareMatrixAndRhs
    \/ SolveMatrix
    \/ IterateUnknown

SpecNR == InitNR /\ [][NextNR]_vars

(***************************************************************************)
(* prepare_matrix_and_rhs on its own: any loads, reactive power and        *)
(* unknown types included, on a solver that initialize has left at a flat  *)
(* voltage.                                                                *)
(***************************************************************************)
MaxLoads == 3

AnyTypes == KnownTypes \cup {"unknown"}
\* S = 0.1 + 0.05j
LoadPower == Complex(Tenth, Fin(0, 1, 0, 20))

RECURSIVE LoadLists(_)
\* the lists of at most n loads
LoadLists(n) ==
    IF n = 0 THEN {<<>>}
    ELSE LoadLists(n - 1) \cup
         {Append(loads, Load(type, LoadPower)) :
              loads \in {l \in LoadLists(n - 1) : Len(l) = n - 1}, type \in AnyTypes}

MaxSources == 2

\* a source: its admittance and its reference voltage
Source(y_ref, u_ref) == [y_ref |-> y_ref, u_ref |-> u_ref]
SourceParams ==
    {Source(Complex(One, Zero), Complex(One, Zero)),
     Source(Complex(Num(2), Num(-1)), Complex(Zero, One)),
     Source(Complex(Half, One), Complex(Num(-1), Half))}

RECURSIVE SourceLists(_)
\* the lists of at most n sources
SourceLists(n) ==
    IF n = 0 THEN {<<>>}
    ELSE SourceLists(n - 1) \cup
         {Append(sources, source) :
              sources \in {l \in SourceLists(n - 1) : Len(l) = n - 1}, source \in SourceParams}

\* the three buses with a const_i load at bus 1 and the sources given at bus 0 and
\* at bus 2
ThreeBusSources(sources0, sources2) ==
    [ThreeBus(0, <<Load("const_i", LoadPower)>>) EXCEPT
        !.sources_per_bus = Vec(<<[i \in DOMAIN sources0 |-> i - 1], <<>>,
                                  [i \in DOMAIN sources2 |-> Len(sources0) + i - 1]>>),
        !.y_ref = Vec([i \in DOMAIN (sources0 \o sources2) |-> (sources0 \o sources2)[i].y_ref]),
        !.source = Vec([i \in DOMAIN (sources0 \o sources2) |-> (sources0 \o sources2)[i].u_ref])]

PrepareGrids ==
    {SingleBus(turns, loads) : turns \in {0, 1}, loads \in LoadLists(MaxLoads)}
        \cup {ThreeBus(0, loads) : loads \in LoadLists(1)}
        \cup {ThreeBusSources(sources0, sources2) :
                  sources0 \in SourceLists(MaxSources), sources2 \in SourceLists(1)}

\* the axis of the flat voltage: that of the first source when it is on an axis
FlatAxis(grid) ==
    IF grid.source # <<>> /\ grid.source[0] \in {Reference(turns) : turns \in -1 .. 2}
    THEN grid.source[0] ELSE Complex(One, Zero)

InitPrepare ==
    /\ IdleSparseLU
    /\ tap = [last_call |-> "none"]
    /\ wrapper = [last_call |-> "none"]
    /\ \E grid \in PrepareGrids, magnitude \in {One, Num(2)} :
           nr = initialize_derived_solver(NewtonRaphsonPFSolver(grid),
                    Strict([i \in Range0(grid.size) |-> CScale(magnitude, FlatAxis(grid))]))

NextPrepare == PrepareMatrixAndRhs

SpecPrepare == InitPrepare /\ [][NextPrepare]_vars

(***************************************************************************)
(* Iterative refinement on its own: solves with any right-hand side on a   *)
(* solver that a prefactorize with pivot perturbation has left perturbed.  *)
(***************************************************************************)
\* the entries of a right-hand side: 0, 1, -2, 1e-13 and infinity
RhsVals == {Zero, One, Num(-2), epsilon_perturbation, PInf}
RefineRhs(is_block) ==
    IF is_block
    THEN {Vec(<<Vec(<<a, Zero>>), Vec(<<b, One>>)>>) : a \in RhsVals, b \in RhsVals}
         \cup {Vec(<<Vec(<<Zero, Zero>>), Vec(<<Zero, Zero>>)>>)}
    ELSE {Vec(<<a, b>>) : a \in RhsVals, b \in RhsVals}

InitRefine ==
    /\ \E is_block \in BOOLEAN : \E A \in Matrices(is_block) :
           \E f \in {prefactorize(SparseLUSolver(is_block, DensePattern.row_indptr,
                                                 DensePattern.col_indices,
                                                 DensePattern.diag_lu),
                                  A, PreAllocatedPerm(is_block), TRUE)} :
               /\ f.self.has_pivot_perturbation_
               /\ ~f.throws
               /\ solver = f.self
               /\ data = f.data
               /\ block_perm_array = f.block_perm_array
               /\ seen = [prefactorize |-> [use_pivot_perturbation |-> TRUE,
                                            input |-> <<A>>, pivot_log |-> f.pivot_log,
                                            block_log |-> f.block_log,
                                            index_log |-> f.index_log, throws |-> FALSE],
                          solve |-> NoSolve]
    /\ x = <<>>
    /\ last_call = "prefactorize"
    /\ thrown = "no"
    /\ pivot_call = NoPivotCall
    /\ nr = [last_call |-> "none"]
    /\ tap = [last_call |-> "none"]
    /\ wrapper = [last_call |-> "none"]

NextRefine == \E rhs \in RefineRhs(solver.is_block) : SolveWithPrefactorizedMatrix(rhs)

SpecRefine == InitRefine /\ [][NextRefine]_vars

(***************************************************************************)
(* Properties.  pf is the latest prefactorize (alone or as the first step  *)
(* of prefactorize_and_solve), sv the latest solve that followed it.       *)
(***************************************************************************)
pf == seen.prefactorize
sv == seen.solve
Called == pf.input # <<>>
Solved == sv.rhs # <<>>
PivotLog == {pf.pivot_log[k] : k \in DOMAIN pf.pivot_log}
\* the latest prefactorize changed a pivot by perturbation
Perturbed == \E e \in PivotLog : e.after # e.before
\* the largest magnitude among the pivots of a set of log entries
MaxPivotOf(entries) ==
    CHOOSE m \in {cabs(e.after) : e \in entries} :
        \A e \in entries : Le(cabs(e.after), m)
\* the pivots logged for the same diagonal block as e (block mode)
SameBlock(e) == {o \in PivotLog : o.row = e.row}
\* the row where the latest prefactorize stopped
LastRow == pf.pivot_log[Len(pf.pivot_log)].row
\* the diagonal pivots of U in data, for one row
PivotsInData(row) ==
    IF solver.is_block
    THEN {data[solver.diag_lu_[row]][k][k] : k \in Range0(block_size)}
    ELSE {data[solver.diag_lu_[row]]}
\* the rows whose diagonal entry the latest prefactorize factorized
FactorizedRows ==
    IF solver.is_block THEN {pf.block_log[n].row : n \in DOMAIN pf.block_log}
    ELSE {e.row : e \in PivotLog}
\* 1e-13 * ||A||_off of the matrix passed to the latest prefactorize
InputThreshold ==
    Mul(epsilon_perturbation, matrix_norm_upto(solver, pf.input[1], solver.size_))

\* C1 as stated: with use_pivot_perturbation = false, prefactorize raises
\* SparseMatrixError whenever some diagonal pivot is smaller in magnitude than
\* epsilon * max_pivot, with scalar entries (max_pivot the largest pivot of the
\* matrix) as well as with block entries (max_pivot the largest of the block).
C1_AsStated ==
    (Called /\ ~pf.use_pivot_perturbation) =>
        ((\E e \in PivotLog :
              Lt(cabs(e.after),
                 Mul(epsilon, MaxPivotOf(IF solver.is_block THEN SameBlock(e) ELSE PivotLog))))
         => pf.throws)

\* C1 (amended): with use_pivot_perturbation = false, block entries: prefactorize
\* raises SparseMatrixError at a diagonal block whenever a pivot of that block is
\* smaller in magnitude than epsilon * max_pivot of the block; scalar entries: it
\* raises exactly when a pivot is not is_normal, however small the pivot is.
C1_SingularPivotRaises ==
    (Called /\ ~pf.use_pivot_perturbation) =>
        IF solver.is_block
        THEN \A e \in PivotLog :
                 Lt(cabs(e.after), Mul(epsilon, MaxPivotOf(SameBlock(e))))
                     => (pf.throws /\ e.row = LastRow)
        ELSE pf.throws <=> (\E e \in PivotLog : ~is_normal(e.after))

C1_Witness ==
    /\ Called /\ ~pf.use_pivot_perturbation /\ solver.is_block /\ pf.throws
    /\ \E e \in PivotLog :
           /\ is_normal(e.after)
           /\ Lt(cabs(e.after), Mul(epsilon, MaxPivotOf(SameBlock(e))))

\* C2: when prefactorize returns without raising, every diagonal pivot of U (every
\* diagonal element of every factorized diagonal block) is is_normal; when a pivot
\* of a row it factorized is not, prefactorize has raised SparseMatrixError.
C2_PivotsNormal ==
    Called =>
        /\ ~pf.throws =>
               \A row \in Range0(solver.size_) : \A v \in PivotsInData(row) : is_normal(v)
        /\ (\E row \in FactorizedRows : \E v \in PivotsInData(row) : ~is_normal(v))
               => pf.throws

C2_Witness ==
    /\ Called /\ ~pf.throws /\ pf.use_pivot_perturbation
    /\ \E e \in PivotLog : e.before = Zero

\* C3 as stated: with use_pivot_perturbation = true, a diagonal pivot that is
\* exactly zero is replaced by 1e-13 * ||A||_off, the flag becomes true and
\* prefactorize does not raise at that pivot, whatever the matrix.
C3_AsStated ==
    (Called /\ pf.use_pivot_perturbation) =>
        \A e \in PivotLog : e.before = Zero =>
            /\ e.after = InputThreshold
            /\ solver.has_pivot_perturbation_
            /\ ~(pf.throws /\ e.row = LastRow)

\* C3 (amended): with use_pivot_perturbation = true, a diagonal pivot that is
\* exactly zero is replaced by 1e-13 * ||A||_off, the flag becomes true and
\* prefactorize does not raise at that pivot, provided 1e-13 * ||A||_off is
\* is_normal; when ||A||_off is zero the pivot stays zero, the flag is not set
\* by it and prefactorize raises SparseMatrixError there.
C3_ZeroPivotPerturbed ==
    (Called /\ pf.use_pivot_perturbation) =>
        \A e \in PivotLog : e.before = Zero =>
            IF is_normal(InputThreshold)
            THEN /\ e.after = InputThreshold
                 /\ solver.has_pivot_perturbation_
                 /\ ~(pf.throws /\ e.row = LastRow)
            ELSE /\ e.after = Zero
                 /\ pf.throws /\ e.row = LastRow

C3_Witness ==
    /\ Called /\ pf.use_pivot_perturbation
    /\ \E e \in PivotLog : e.before = Zero /\ e.after = InputThreshold /\ is_normal(e.after)

\* C4: after a prefactorize with use_pivot_perturbation = false, whatever was
\* called before, no pivot was changed by perturbation, has_pivot_perturbation_
\* is false, and the threshold handed to perturb_pivot_if_needed is the zero
\* that comes from the reset matrix norm.
C4_NoPerturbationUnlessAsked ==
    (Called /\ ~pf.use_pivot_perturbation) =>
        /\ ~solver.has_pivot_perturbation_
        /\ solver.matrix_norm_ = Zero
        /\ \A e \in PivotLog : e.after = e.before /\ e.threshold = Zero

\* a block prefactorize without perturbation on a solver that still holds the
\* caches of an earlier perturbed factorization's refinement
C4_Witness ==
    /\ Called /\ ~pf.use_pivot_perturbation /\ solver.is_block
    /\ pf.pivot_log # <<>>
    /\ solver.dx_ # <<>>

\* C5: a solve refines iteratively if and only if the latest prefactorize on the
\* solver changed a pivot by perturbation; otherwise it is exactly one
\* forward/backward substitution.
C5_RefinesIffPerturbed ==
    Solved =>
        /\ sv.refined <=> Perturbed
        /\ sv.refined <=> solver.has_pivot_perturbation_
        /\ ~sv.refined => sv.n_solve_once = 1
        /\ sv.refined => sv.n_solve_once >= 1

\* a plain solve on a solver that still holds the caches of an earlier refinement
C5_Witness ==
    Solved /\ ~sv.refined /\ ~Perturbed /\ solver.dx_ # <<>>

\* C6: a refined solve stops at the first backward error <= 1e-13, raises
\* SparseMatrixError after 6 solve_once without one, and never does more than 6.
C6_RefinementTerminates ==
    (Solved /\ sv.refined) =>
        /\ sv.n_solve_once <= 6
        /\ Len(sv.backward_errors) = sv.n_solve_once
        /\ \A i \in 1 .. (sv.n_solve_once - 1) :
               Lt(epsilon_perturbation, sv.backward_errors[i])
        /\ thrown \in {"no", "SparseMatrixError"}
        /\ thrown = "no" => Le(sv.backward_errors[sv.n_solve_once], epsilon_perturbation)
        /\ thrown = "SparseMatrixError" =>
               /\ sv.n_solve_once = 6
               /\ Lt(epsilon_perturbation, sv.backward_errors[6])

C6_Witness ==
    Solved /\ sv.refined /\ thrown = "SparseMatrixError" /\ sv.n_solve_once = 6

\* C7 as stated: between public calls, the original-matrix cache holds a value
\* only if has_pivot_perturbation_ is true.
C7_AsStated ==
    solver.original_matrix_ # <<>> => solver.has_pivot_perturbation_

\* C8 as stated: after a prefactorize that completes without perturbation, the
\* original-matrix cache and the refinement caches (dx, residual, rhs) are empty.
C8_AsStated ==
    (Called /\ last_call = "prefactorize" /\ ~pf.throws /\ ~Perturbed) =>
        /\ solver.original_matrix_ = <<>>
        /\ solver.dx_ = <<>>
        /\ solver.residual_ = <<>>
        /\ solver.rhs_ = <<>>

\* C9: perturb_pivot_if_needed: when abs_value < threshold the value becomes
\* value * threshold / abs_value (the threshold itself for a zero value), of
\* magnitude exactly the threshold and of unchanged sign, abs_value becomes the
\* threshold and the flag true; otherwise value, abs_value and flag are unchanged.
C9_PerturbPivot ==
    pivot_call.called =>
        LET b == pivot_call.before[1]
            threshold == pivot_call.perturb_threshold
        IN  IF Lt(b.abs_value, threshold)
            THEN /\ pivot_call.value =
                        IF b.value = Zero THEN threshold
                        ELSE Div(Mul(b.value, threshold), b.abs_value)
                 /\ cabs(pivot_call.value) = threshold
                 /\ Sign(pivot_call.value) = IF b.value = Zero THEN 1 ELSE Sign(b.value)
                 /\ pivot_call.abs_value = threshold
                 /\ pivot_call.has_pivot_perturbation
            ELSE /\ pivot_call.value = b.value
                 /\ pivot_call.abs_value = b.abs_value
                 /\ pivot_call.has_pivot_perturbation = b.has_pivot_perturbation

C9_Witness ==
    /\ pivot_call.called
    /\ Lt(pivot_call.before[1].abs_value, pivot_call.perturb_threshold)
    /\ Sign(pivot_call.before[1].value) = -1
    /\ ~pivot_call.before[1].has_pivot_perturbation

IsPermutation(indices) ==
    /\ DOMAIN indices = Range0(block_size)
    /\ \A r \in Range0(block_size) : \E k \in Range0(block_size) : indices[k] = r
\* the transposition of i and j, applied to k
Transposed(i, j, k) == IF k = i THEN j ELSE IF k = j THEN i ELSE k
RECURSIVE ThroughAscending(_, _, _)
\* k sent through the transpositions (m, t[m]), m ascending from m
ThroughAscending(t, k, m) ==
    IF m = block_size THEN k ELSE ThroughAscending(t, Transposed(m, t[m], k), m + 1)
RECURSIVE ThroughDescending(_, _, _)
\* k sent through the transpositions (m, t[m]), m descending from m
ThroughDescending(t, k, m) ==
    IF m = -1 THEN k ELSE ThroughDescending(t, Transposed(m, t[m], k), m - 1)

\* C10: block entries: the P and Q recorded for every factorized diagonal block
\* are bijections of 0 .. B-1, the compositions of the row and column
\* transpositions recorded, each transposition[k] >= k; also when the main loop
\* was left early on an all-zero remaining sub-block.
C10_BlockPermutations ==
    (Called /\ solver.is_block) =>
        \A n \in DOMAIN pf.block_log :
            LET b == pf.block_log[n]
                perm == block_perm_array[b.row]
            IN  /\ IsPermutation(perm.p)
                /\ IsPermutation(perm.q)
                /\ \A k \in Range0(block_size) :
                       /\ b.row_transpositions[k] \in k .. (block_size - 1)
                       /\ b.col_transpositions[k] \in k .. (block_size - 1)
                       /\ perm.p[k] = ThroughAscending(b.row_transpositions, k, 0)
                       /\ perm.q[k] = ThroughDescending(b.col_transpositions, k,
                                                        block_size - 1)

C10_Witness ==
    /\ Called /\ solver.is_block
    /\ \E n \in DOMAIN pf.block_log :
           /\ pf.block_log[n].row_transpositions[0] = 1
           /\ pf.block_log[n].col_transpositions[0] = 1
           /\ block_perm_array[pf.block_log[n].row].p[0] = 1

(***************************************************************************)
(* The index arithmetic of prefactorize (specification SpecPattern)        *)
(***************************************************************************)
IndexLog == seen.prefactorize.index_log

\* the pattern holds an entry at (row, col)
HasEntry(self, row, col) ==
    \E idx \in self.row_indptr_[row] .. (self.row_indptr_[row + 1] - 1) :
        self.col_indices_[idx] = col

\* eliminating any pivot creates no entry the pattern does not hold already
ClosedUnderFillIn(self) ==
    \A p \in Range0(self.size_), i \in Range0(self.size_), j \in Range0(self.size_) :
        (p < i /\ p < j /\ HasEntry(self, p, i) /\ HasEntry(self, p, j))
            => HasEntry(self, i, j)

InRow(self, row, idx) ==
    idx >= self.row_indptr_[row] /\ idx < self.row_indptr_[row + 1]

\* C11: on a symmetric pattern with ascending columns, every diagonal present and
\* closed under elimination fill-in, each Schur-complement lookup of prefactorize
\* finds, in row l_row at or after a_idx, an entry whose column is exactly u_col
\* (found != end and *found == u_col), and a_idx never moves backwards.
C11_SchurLookupFinds ==
    ClosedUnderFillIn(solver) =>
        \A k \in DOMAIN IndexLog :
            IndexLog[k].kind = "schur" =>
                /\ IndexLog[k].idx < solver.row_indptr_[IndexLog[k].row + 1]
                /\ solver.col_indices_[IndexLog[k].idx] = IndexLog[k].col
                /\ IndexLog[k].idx >= IndexLog[k].from

\* a closed pattern was factorized and a lookup skipped an entry of its row
C11_Witness ==
    /\ last_call = "prefactorize"
    /\ ClosedUnderFillIn(solver)
    /\ \E k \in DOMAIN IndexLog :
           IndexLog[k].kind = "schur" /\ IndexLog[k].idx > IndexLog[k].from + 1

\* C12: on a symmetric pattern with ascending columns and every diagonal present,
\* at the start of the pass of pivot p col_position_idx[p] is diag_lu[p], and
\* every col_position_idx[r] read during that pass is the entry of row r whose
\* column is p (col_indices[l_idx] == pivot and col_indices[u_idx] == pivot),
\* for scalar and for block entries.
C12_ColumnPositions ==
    \A k \in DOMAIN IndexLog :
        /\ IndexLog[k].kind = "pivot" =>
               IndexLog[k].idx = solver.diag_lu_[IndexLog[k].row]
        /\ IndexLog[k].kind \in {"u_above", "l_below"} =>
               /\ InRow(solver, IndexLog[k].row, IndexLog[k].idx)
               /\ solver.col_indices_[IndexLog[k].idx] = IndexLog[k].pivot

\* block entries on a pattern not closed under fill-in: positions were read for
\* the U above a pivot and for the L below one, and the last pivot was reached
C12_Witness ==
    /\ last_call = "prefactorize"
    /\ solver.is_block
    /\ ~ClosedUnderFillIn(solver)
    /\ \E k \in DOMAIN IndexLog : IndexLog[k].kind = "u_above"
    /\ \E k \in DOMAIN IndexLog : IndexLog[k].kind = "l_below"
    /\ \E k \in DOMAIN IndexLog :
           IndexLog[k].kind = "pivot" /\ IndexLog[k].row = solver.size_ - 1

(***************************************************************************)
(* The frame of solve_with_prefactorized_matrix (specification Spec)       *)
(***************************************************************************)
\* C13: a call of solve_with_prefactorized_matrix leaves the pattern, the matrix
\* data, the block permutations, has_pivot_perturbation_ and the original-matrix
\* cache as they were: of the solver only dx_, residual_ and rhs_ may change (and
\* x of the caller); it is refined exactly when the flag is set, so that every
\* solve after one prefactorize is dispatched the same way; and after a refined
\* solve that returned, dx_, residual_ and rhs_ are empty.
C13_SolveFrame ==
    [][last_call' = "solve_with_prefactorized_matrix" =>
          /\ data' = data
          /\ block_perm_array' = block_perm_array
          /\ [solver' EXCEPT !.dx_ = solver.dx_, !.residual_ = solver.residual_,
                             !.rhs_ = solver.rhs_] = solver
          /\ seen'.solve.refined = solver.has_pivot_perturbation_
          /\ (seen'.solve.refined /\ thrown' = "no") =>
                 (solver'.dx_ = <<>> /\ solver'.residual_ = <<>> /\ solver'.rhs_ = <<>>)]_vars

\* a refined solve on a prefactorized matrix returned, the matrix cache being kept
C13_Witness ==
    /\ last_call = "solve_with_prefactorized_matrix"
    /\ thrown = "no"
    /\ seen.solve.refined
    /\ solver.has_pivot_perturbation_
    /\ solver.original_matrix_ # <<>>
    /\ solver.dx_ = <<>>

(***************************************************************************)
(* prepare_matrix_and_rhs (specifications SpecPrepare and SpecNR)          *)
(***************************************************************************)
Prepared == nr.last_call = "prepare_matrix_and_rhs" /\ nr.thrown = "no"

\* the loads of a bus: their numbers, in the order of the loop
BusLoads(bus) == nr.grid.load_gens_per_bus[bus]

\* the grid of nr with every load taken away
Unloaded == [nr.grid EXCEPT !.load_gens_per_bus = [bus \in DOMAIN @ |-> <<>>]]

\* data_jac_ and del_x_pq_ as the network part and the sources alone make them
WithoutLoads ==
    loads_and_sources(Unloaded, nr.x_, nr.u,
                      [data_jac_ |-> nr.network[1], del_x_pq_ |-> nr.network[2],
                       throws |-> "no", network |-> <<>>], 0)

\* the power (P or Q of the base power given) a load of this type injects at
\* magnitude v, and what it takes from N or L of the diagonal block
StatedPower(type, base, v) ==
    CASE type = "const_pq" -> base
      [] type = "const_i" -> Mul(base, v)
      [] type = "const_y" -> Mul(base, Mul(v, v))
StatedCorrection(type, base, v) ==
    CASE type = "const_pq" -> Zero
      [] type = "const_i" -> Mul(base, v)
      [] type = "const_y" -> Mul(Num(2), Mul(base, Mul(v, v)))

RECURSIVE SumOfLoads(_, _, _, _)
\* the sum over the first n loads of a bus of Stated(type, part(s_injection), v)
SumOfLoads(Stated(_, _, _), part(_), bus, n) ==
    IF n = 0 THEN Zero
    ELSE Add(SumOfLoads(Stated, part, bus, n - 1),
             Stated(nr.grid.load_gen_type[BusLoads(bus)[n]],
                    part(nr.grid.s_injection[BusLoads(bus)[n]]), nr.x_[bus].v))

LoadSum(Stated(_, _, _), part(_), bus) == SumOfLoads(Stated, part, bus, Len(BusLoads(bus)))

\* C14: prepare_matrix_and_rhs adds to del_x_pq_ of bus i, for each of its loads of
\* base power P + jQ, (P, Q) for const_pq, (P V, Q V) for const_i and (P V^2, Q V^2)
\* for const_y, V being x_[i].v, and takes from N and L of the diagonal block
\* nothing, (P V, Q V) and (2 P V^2, 2 Q V^2); H and M of that block and every
\* other block are as the network part and the sources left them; the loads of
\* one bus add up.
C14_LoadContributions ==
    Prepared =>
        /\ \A bus \in Range0(nr.grid.size) :
               /\ nr.del_x_pq_[bus] =
                      ComplexPower(Add(WithoutLoads.del_x_pq_[bus][0],
                                       LoadSum(StatedPower, real, bus)),
                                   Add(WithoutLoads.del_x_pq_[bus][1],
                                       LoadSum(StatedPower, imag, bus)))
               /\ nr.data_jac_[nr.grid.lu_diag[bus]] =
                      add_to_block(WithoutLoads.data_jac_[nr.grid.lu_diag[bus]], Zero,
                                   Neg(LoadSum(StatedCorrection, real, bus)), Zero,
                                   Neg(LoadSum(StatedCorrection, imag, bus)))
        /\ \A k \in DOMAIN nr.data_jac_ :
               k \notin {nr.grid.lu_diag[bus] : bus \in Range0(nr.grid.size)} =>
                   nr.data_jac_[k] = WithoutLoads.data_jac_[k]

\* a const_pq, a const_y and a const_i load of 0.1 + 0.05j on one bus at V = 1: they
\* added (0.3, 0.15) to del_x_pq_ and took 0.3 from N
C14_Witness ==
    /\ Prepared
    /\ nr.grid.size = 1
    /\ nr.x_[0].v = One
    /\ Len(BusLoads(0)) = 3
    /\ {nr.grid.load_gen_type[BusLoads(0)[n]] : n \in 1 .. 3} = KnownTypes
    /\ Sub(nr.del_x_pq_[0][0], WithoutLoads.del_x_pq_[0][0]) = Fin(0, 3, 0, 10)
    /\ Sub(nr.del_x_pq_[0][1], WithoutLoads.del_x_pq_[0][1]) = Fin(0, 3, 0, 20)
    /\ Sub(nr.data_jac_[0][0][1], WithoutLoads.data_jac_[0][0][1]) = Fin(0, -3, 0, 10)

\* some load attached to a bus has a type that is none of the three
SomeUnknownType ==
    \E bus \in Range0(nr.grid.size) : \E n \in 1 .. Len(BusLoads(bus)) :
        nr.grid.load_gen_type[BusLoads(bus)[n]] \notin {"const_pq", "const_y", "const_i"}

\* C15: prepare_matrix_and_rhs leaves by MissingCaseForEnumError exactly when some
\* load or generator attached to a bus has a type other than const_pq, const_y and
\* const_i.
C15_UnknownTypeRaises ==
    nr.last_call = "prepare_matrix_and_rhs" =>
        (nr.thrown = "MissingCaseForEnumError" <=> SomeUnknownType)

\* the error was raised for a bus whose first two loads are of known types
C15_Witness ==
    /\ nr.last_call = "prepare_matrix_and_rhs"
    /\ nr.thrown = "MissingCaseForEnumError"
    /\ Len(BusLoads(0)) = 3
    /\ nr.grid.load_gen_type[BusLoads(0)[1]] = "const_i"
    /\ nr.grid.load_gen_type[BusLoads(0)[2]] = "const_y"
    /\ nr.grid.load_gen_type[BusLoads(0)[3]] = "unknown"

(***************************************************************************)
(* The iteration (specification SpecNR)                                    *)
(***************************************************************************)
Initialized == nr.last_call # "none"
Iterated == nr.last_call = "iterate_unknown"

\* C16: after initialize and any number of rounds of prepare_matrix_and_rhs,
\* solve_matrix and iterate_unknown, the magnitude x_[i].v of every bus is
\* strictly positive, whatever increment the linear solve returned.
C16_AsStated ==
    Initialized => \A bus \in Range0(nr.grid.size) : Sign(nr.x_[bus].v) > 0

\* the step is a call of iterate_unknown that follows a solve_matrix that returned
IterateStep ==
    nr.last_call = "solve_matrix" /\ nr.thrown = "no" /\ nr'.last_call = "iterate_unknown"

AllZero(del_x_pq) == \A bus \in DOMAIN del_x_pq : del_x_pq[bus] = ComplexPower(Zero, Zero)

\* C17: when prepare_matrix_and_rhs left a zero mismatch at every bus and the
\* Jacobian factorized, solve_matrix left a zero increment at every bus, and
\* iterate_unknown leaves x_ and u as they were and returns 0.
C17_RoundTrip ==
    [][(IterateStep /\ AllZero(nr.before[1].del_x_pq_)) =>
           /\ AllZero(nr.del_x_pq_)
           /\ nr'.x_ = nr.x_
           /\ nr'.u = nr.u
           /\ nr'.max_dev = Zero]_vars

\* iterate_unknown returned on the three buses at the solution, a quarter turn
\* off the real axis
C17_Witness ==
    /\ Iterated
    /\ nr.grid.size = 3
    /\ AllZero(nr.before[1].rhs)
    /\ nr.x_[2].theta.turns = 1
    /\ nr.max_dev = Zero

\* the greatest of a set of deviations
Greatest(S) == CHOOSE m \in S : \A d \in S : Le(d, m)

\* |u_new - u_old| of a bus over a call of iterate_unknown
Moved(bus) == complex_cabs(CSub(nr'.u[bus], nr.u[bus]))

NoBusIterated == Iterated /\ nr.grid.size = 0 /\ nr.max_dev = Zero

FillIns == {k \in DOMAIN nr.grid.map_lu_y_bus : nr.grid.map_lu_y_bus[k] = -1}

\* the positions of a row that Y holds
InY(row) ==
    {k \in nr.grid.row_indptr_lu[row] .. (nr.grid.row_indptr_lu[row + 1] - 1) :
         nr.grid.map_lu_y_bus[k] # -1}

\* the block of position k of row as lines 306-315 make it of Y and u
BlockOfY(row, k) ==
    calculate_hnml(nr.grid.admittance[nr.grid.map_lu_y_bus[k]], nr.u[row],
                   nr.u[nr.grid.col_indices_lu[k]])

RECURSIVE SumOver(_, _)
\* the sum of f over a set of positions
SumOver(f(_), S) ==
    IF S = {} THEN Zero
    ELSE LET k == CHOOSE k \in S : TRUE IN Add(f(k), SumOver(f, S \ {k}))

\* C20: when the network part of prepare_matrix_and_rhs is done, the block of
\* every fill-in (map_lu_y_bus[k] = -1) is zero, and del_x_pq_ of every row is
\* minus the sum of N, and minus the sum of H, over the positions of the row that
\* Y holds: the fill-ins add nothing to it.
C20_FillInsAreZero ==
    nr.last_call = "prepare_matrix_and_rhs" =>
        /\ \A k \in FillIns : nr.network[1][k] = BlockZero
        /\ \A row \in Range0(nr.grid.size) :
               nr.network[2][row] =
                   ComplexPower(Neg(SumOver(LAMBDA k : BlockOfY(row, k)[0][1], InY(row))),
                                Neg(SumOver(LAMBDA k : BlockOfY(row, k)[0][0], InY(row))))

\* a second round was prepared on a grid with fill-ins, whose blocks the
\* factorization of the first round had filled
C20_Witness ==
    /\ Prepared
    /\ nr.round = 2
    /\ FillIns # {}
    /\ \E k \in FillIns : nr.before[1].data_jac_[k] # BlockZero
    /\ \A k \in FillIns : nr.data_jac_[k] = BlockZero

(***************************************************************************)
(* add_sources (specification SpecPrepare)                                 *)
(***************************************************************************)
\* the sources of a bus, as a set of source numbers
BusSources(bus) ==
    {nr.grid.sources_per_bus[bus][n] : n \in DOMAIN nr.grid.sources_per_bus[bus]}

\* the grid of nr with every source taken away
Unsourced == [nr.grid EXCEPT !.sources_per_bus = [bus \in DOMAIN @ |-> <<>>]]

\* data_jac_ and del_x_pq_ as the network part and the loads alone make them
WithoutSources ==
    loads_and_sources(Unsourced, nr.x_, nr.u,
                      [data_jac_ |-> nr.network[1], del_x_pq_ |-> nr.network[2],
                       throws |-> "no", network |-> <<>>], 0)

\* the power that flows from the bus into a source: u conj(y_ref (u - u_ref))
SourcePower(bus, source) ==
    CMul(nr.u[bus], conj(CMul(nr.grid.y_ref[source], CSub(nr.u[bus], nr.grid.source[source]))))

\* |u|^2 conj(y_ref), the power of the bus against itself
SelfPower(bus, source) == CMul(CMul(nr.u[bus], conj(nr.u[bus])), conj(nr.grid.y_ref[source]))

\* HNML_mm of a source with its diagonal correction
CorrectedBlock(bus, source) ==
    PFJacBlock(Sub(imag(SelfPower(bus, source)), imag(SourcePower(bus, source))),
               Add(real(SelfPower(bus, source)), real(SourcePower(bus, source))),
               Add(Neg(real(SelfPower(bus, source))), real(SourcePower(bus, source))),
               Add(imag(SelfPower(bus, source)), imag(SourcePower(bus, source))))

\* C21: for every bus, the sources take the sum of their (P_cal, Q_cal) from
\* del_x_pq_ of the bus and add the sum of their corrected HNML_mm to the diagonal
\* block of the bus, whatever their order; every other block is as the network
\* part and the loads left it.
C21_SourceContributions ==
    Prepared =>
        /\ \A bus \in Range0(nr.grid.size) :
               /\ nr.del_x_pq_[bus] =
                      ComplexPower(
                          Sub(WithoutSources.del_x_pq_[bus][0],
                              SumOver(LAMBDA n : real(SourcePower(bus, n)), BusSources(bus))),
                          Sub(WithoutSources.del_x_pq_[bus][1],
                              SumOver(LAMBDA n : imag(SourcePower(bus, n)), BusSources(bus))))
               /\ nr.data_jac_[nr.grid.lu_diag[bus]] =
                      add_to_block(WithoutSources.data_jac_[nr.grid.lu_diag[bus]],
                          SumOver(LAMBDA n : CorrectedBlock(bus, n)[0][0], BusSources(bus)),
                          SumOver(LAMBDA n : CorrectedBlock(bus, n)[0][1], BusSources(bus)),
                          SumOver(LAMBDA n : CorrectedBlock(bus, n)[1][0], BusSources(bus)),
                          SumOver(LAMBDA n : CorrectedBlock(bus, n)[1][1], BusSources(bus)))
        /\ \A k \in DOMAIN nr.data_jac_ :
               k \notin {nr.grid.lu_diag[bus] : bus \in Range0(nr.grid.size)} =>
                   nr.data_jac_[k] = WithoutSources.data_jac_[k]

\* two different sources on bus 0 and one on bus 2 of the three buses, and they
\* changed del_x_pq_ of bus 0; bus 1 has none and is as the loads left it
C21_Witness ==
    /\ Prepared
    /\ nr.grid.size = 3
    /\ Len(nr.grid.sources_per_bus[0]) = 2
    /\ Len(nr.grid.sources_per_bus[2]) = 1
    /\ nr.grid.y_ref[0] # nr.grid.y_ref[1]
    /\ nr.grid.source[0] = Complex(Zero, One)
    /\ nr.del_x_pq_[0] # WithoutSources.del_x_pq_[0]
    /\ nr.del_x_pq_[1] = WithoutSources.del_x_pq_[1]
    /\ nr.del_x_pq_[1] # nr.network[2][1]

(***************************************************************************)
(* prepare_matrix_and_rhs and the buffers (specification SpecNR)           *)
(***************************************************************************)
\* what prepare_matrix_and_rhs makes of the buffers of a new solver
FromScratch ==
    prepare_matrix_and_rhs(nr.grid, nr.x_, nr.u,
        [data_jac_ |-> NewtonRaphsonPFSolver(nr.grid).data_jac_,
         del_x_pq_ |-> NewtonRaphsonPFSolver(nr.grid).del_x_pq_,
         throws |-> "no", network |-> <<>>])

\* C22: what prepare_matrix_and_rhs leaves in data_jac_ and del_x_pq_ is what it
\* makes of the buffers of a new solver for the same grid, x_ and u, whatever
\* solve_matrix had left in them; called a second time in a row it leaves them
\* as they were.
C22_PrepareFromScratch ==
    nr.last_call = "prepare_matrix_and_rhs" =>
        /\ nr.data_jac_ = FromScratch.data_jac_
        /\ nr.del_x_pq_ = FromScratch.del_x_pq_
        /\ nr.before[1].again =>
               /\ nr.data_jac_ = nr.before[1].data_jac_
               /\ nr.del_x_pq_ = nr.before[1].del_x_pq_

\* the second round of two buses was prepared twice in a row, on buffers that
\* held the factors and the non-zero increments of the first round
C22_Witness ==
    /\ Prepared
    /\ nr.round = 2
    /\ nr.grid.size = 2
    /\ nr.before[1].again
    /\ \A k \in DOMAIN nr.data_jac_ : nr.before[1].dirty.data_jac_[k] # nr.data_jac_[k]
    /\ \A bus \in DOMAIN nr.del_x_pq_ :
           /\ nr.before[1].dirty.del_x_pq_[bus] # nr.del_x_pq_[bus]
           /\ nr.before[1].dirty.del_x_pq_[bus] # ComplexPower(Zero, Zero)

(***************************************************************************)
(* One buffer as rhs and as x (specification Spec)                         *)
(***************************************************************************)
\* the latest solve done again with rhs in a buffer of its own, x being the buffer
\* that holds the result of the latest solve
InDistinctBuffers ==
    solve_with_prefactorized_matrix(solver, data, block_perm_array, sv.rhs[1], x, FALSE)

\* C23: a solve that was given one buffer as rhs and as x leaves in it what the
\* same solve leaves in x when rhs is a buffer of its own, and leaves by the
\* same exception if by any, with and without iterative refinement.
C23_SameBuffer ==
    Solved =>
        /\ InDistinctBuffers.throws = thrown
        /\ thrown = "no" => InDistinctBuffers.x = x

\* a refined solve of a block matrix in one buffer returned, every row changed
C23_Witness ==
    /\ Solved
    /\ thrown = "no"
    /\ sv.refined
    /\ solver.is_block
    /\ sv.n_solve_once >= 2
    /\ \A row \in DOMAIN x : x[row] # sv.rhs[1][row]

\* a solve without refinement in one buffer returned, every row changed
UnrefinedInOneBuffer ==
    /\ Solved
    /\ thrown = "no"
    /\ ~sv.refined
    /\ \A row \in DOMAIN x : x[row] # sv.rhs[1][row]

(***************************************************************************)
(* The Newton-Raphson solver and pivot perturbation (specification SpecNR) *)
(***************************************************************************)
\* the pivots the factorization of the latest solve_matrix met
JacobianPivots == {nr.seen[1].pivot_log[k] : k \in DOMAIN nr.seen[1].pivot_log}

\* the diagonal of U in the diagonal blocks that the latest solve_matrix factorized
JacobianDiagonal ==
    {nr.data_jac_[nr.grid.lu_diag[nr.seen[1].block_log[n].row]][k][k] :
         n \in DOMAIN nr.seen[1].block_log, k \in Range0(block_size)}

EntriesOf(v) ==
    IF solver.is_block THEN {v[row][br] : row \in DOMAIN v, br \in Range0(block_size)}
    ELSE {v[row] : row \in DOMAIN v}

RECURSIVE IterateOf(_)
\* the iterate after k corrections of the latest solve: 0 + dx_1 + ... + dx_k
IterateOf(k) ==
    IF k = 0 THEN Strict([row \in Range0(solver.size_) |-> vector_zero(solver.is_block)])
    ELSE Strict([row \in Range0(solver.size_) |->
                    vector_add(solver.is_block, IterateOf(k - 1)[row],
                               sv.corrections[k][row])])

\* the solver with the right-hand side of the latest solve and the residual of xk
ResidualOf(xk) ==
    calculate_residual([solver EXCEPT !.rhs_ = <<sv.rhs[1]>>, !.residual_ = <<sv.rhs[1]>>,
                                      !.dx_ = <<xk>>], xk)

\* the backward error of xk for the right-hand side of the latest solve
BackwardErrorOf(xk) == iterate_and_backward_error(ResidualOf(xk), xk).max_berr

\* round k of the latest refined solve computed the backward error of the
\* iterate before its correction, and a solve that returned left the iterate
\* after its last correction in x
RoundsLagByOne ==
    /\ Len(sv.corrections) = sv.n_solve_once
    /\ \A k \in 1 .. sv.n_solve_once :
           sv.backward_errors[k] = BackwardErrorOf(IterateOf(k - 1))
    /\ thrown = "no" => x = IterateOf(sv.n_solve_once)

\* C25 as stated: in a refined solve the backward error of round k is that of the
\* iterate before the correction of the round; for every rhs with a non-zero
\* entry the backward error of round 1 is 1 and solve_once runs twice at least;
\* and the x returned holds one correction more than the iterate accepted.
C25_AsStated ==
    (Solved /\ sv.refined) =>
        /\ RoundsLagByOne
        /\ (\E entry \in EntriesOf(sv.rhs[1]) : ~IsZero(entry)) =>
               /\ sv.backward_errors[1] = One
               /\ sv.n_solve_once >= 2

\* C25 (amended): in a refined solve the backward error of round k is that of the
\* iterate before the correction of the round, and the x returned holds one
\* correction more than the iterate accepted; for every rhs whose entries are
\* all finite and not all zero the backward error of round 1 is 1 and solve_once
\* runs twice at least.
C25_RoundsLagByOne ==
    (Solved /\ sv.refined) =>
        /\ RoundsLagByOne
        /\ (/\ \A entry \in EntriesOf(sv.rhs[1]) : IsFin(entry)
            /\ \E entry \in EntriesOf(sv.rhs[1]) : ~IsZero(entry)) =>
               /\ sv.backward_errors[1] = One
               /\ sv.n_solve_once >= 2

\* a refined solve of a finite rhs with an entry of 1e-13 returned: the backward
\* error of round 1 was 1, and the correction of the last round, added after the
\* backward error was accepted, is not zero
C25_Witness ==
    /\ Solved /\ sv.refined /\ thrown = "no"
    /\ \A entry \in EntriesOf(sv.rhs[1]) : IsFin(entry)
    /\ epsilon_perturbation \in EntriesOf(sv.rhs[1])
    /\ sv.backward_errors[1] = One
    /\ sv.n_solve_once >= 2
    /\ \E entry \in EntriesOf(sv.corrections[sv.n_solve_once]) : ~IsZero(entry)
    /\ x # IterateOf(sv.n_solve_once - 1)

(***************************************************************************)
(* The tap position optimizer (tap_position_optimizer.hpp): the graph of   *)
(* the transformers, the weights of its vertices and their ranking.        *)
(* Component lists are sequences in the order of citer; a node's id is its *)
(* index, the vertices are 0 .. n - 1.                                     *)
(***************************************************************************)
\* numeric_limits<Idx>::max(), in the width of the integers of this model
infty == 2147483647

Idx2D(group, pos) == [group |-> group, pos |-> pos]

TrafoGraphEdge(is_trafo, from_to, weight) == [is_trafo |-> is_trafo, from_to |-> from_to, weight |-> weight]

\* edges and edge_props before the first create_edge
NoEdges == [edges |-> <<>>, edge_props |-> <<>>, throws |-> "no", id |-> -1]

create_edge(lists, start, end, edge_prop) ==
    [lists EXCEPT !.edges = Append(@, <<start, end>>),
                  !.edge_props = Append(@, edge_prop)]

\* both directions of a branch between two nodes
both_edges(lists, from_node, to_node, is_trafo, weight) ==
    create_edge(create_edge(lists, from_node, to_node,
                            TrafoGraphEdge(is_trafo, Idx2D(from_node, to_node), weight)),
                to_node, from_node,
                TrafoGraphEdge(is_trafo, Idx2D(to_node, from_node), weight))

\* one round of the loop of retrieve_regulator_info, with the status of the
\* regulator not looked at
regulator_added_any_status(regulated_objects, regulator) ==
    IF regulator.regulated_object_type = "branch"
    THEN [regulated_objects EXCEPT !.transformers = @ \cup {regulator.regulated_object}]
    ELSE [regulated_objects EXCEPT !.transformers3w = @ \cup {regulator.regulated_object}]

\* one round of the loop of retrieve_regulator_info
regulator_added(regulated_objects, regulator) ==
    IF ~regulator.status
    THEN regulated_objects
    ELSE IF regulator.regulated_object_type = "branch"
         THEN [regulated_objects EXCEPT !.transformers = @ \cup {regulator.regulated_object}]
         ELSE [regulated_objects EXCEPT !.transformers3w = @ \cup {regulator.regulated_object}]

RECURSIVE retrieve_regulator_info(_, _, _)
retrieve_regulator_info(state, regulated_objects, k) ==
    IF k > Len(state.transformer_tap_regulator)
    THEN regulated_objects
    ELSE retrieve_regulator_info(state,
             regulator_added(regulated_objects, state.transformer_tap_regulator[k]), k + 1)

\* the edge of a regulated transformer from its tap side, or the exception
regulated_edge(state, lists, id, from_pos, to_pos) ==
    IF state.node[from_pos].u_rated < state.node[to_pos].u_rated
    THEN [lists EXCEPT !.throws = "AutomaticTapCalculationError", !.id = id]
    ELSE create_edge(lists, from_pos, to_pos, TrafoGraphEdge(TRUE, Idx2D(from_pos, to_pos), 1))

\* one round of the loop of add_edges<Transformer>
transformer_edges(state, regulated_objects, lists, transformer) ==
    IF ~transformer.from_status \/ ~transformer.to_status
    THEN lists
    ELSE IF transformer.id \in regulated_objects.transformers
         THEN IF transformer.tap_side = "from"
              THEN regulated_edge(state, lists, transformer.id,
                                  transformer.from_node, transformer.to_node)
              ELSE regulated_edge(state, lists, transformer.id,
                                  transformer.to_node, transformer.from_node)
         ELSE both_edges(lists, transformer.from_node, transformer.to_node, TRUE, 1)

RECURSIVE add_edges_Transformer(_, _, _, _)
add_edges_Transformer(state, regulated_objects, lists, k) ==
    IF k > Len(state.transformer) \/ lists.throws # "no"
    THEN lists
    ELSE add_edges_Transformer(state, regulated_objects,
             transformer_edges(state, regulated_objects, lists, state.transformer[k]), k + 1)

branch3_combinations == <<<<1, 2>>, <<2, 3>>, <<1, 3>>>>

\* one round of the inner loop of add_edges<ThreeWindingTransformer>
transformer3w_edges(regulated_objects, lists, transformer3w, from_side, to_side) ==
    IF ~transformer3w.status[from_side] \/ ~transformer3w.status[to_side]
    THEN lists
    ELSE IF /\ transformer3w.id \in regulated_objects.transformers3w
            /\ transformer3w.tap_side \in {from_side, to_side}
         THEN IF transformer3w.tap_side = from_side
              THEN create_edge(lists, transformer3w.node[from_side], transformer3w.node[to_side],
                       TrafoGraphEdge(TRUE, Idx2D(transformer3w.node[from_side],
                                                  transformer3w.node[to_side]), 1))
              ELSE create_edge(lists, transformer3w.node[to_side], transformer3w.node[from_side],
                       TrafoGraphEdge(TRUE, Idx2D(transformer3w.node[to_side],
                                                  transformer3w.node[from_side]), 1))
         ELSE both_edges(lists, transformer3w.node[from_side], transformer3w.node[to_side],
                         TRUE, 1)

RECURSIVE add_edges_ThreeWindingTransformer(_, _, _, _, _)
add_edges_ThreeWindingTransformer(state, regulated_objects, lists, k, c) ==
    IF k > Len(state.three_winding_transformer)
    THEN lists
    ELSE IF c > Len(branch3_combinations)
         THEN add_edges_ThreeWindingTransformer(state, regulated_objects, lists, k + 1, 1)
         ELSE add_edges_ThreeWindingTransformer(state, regulated_objects,
                  transformer3w_edges(regulated_objects, lists,
                                      state.three_winding_transformer[k],
                                      branch3_combinations[c][1], branch3_combinations[c][2]),
                  k, c + 1)

\* add_edges of the lines or of the links, the list of branches given
RECURSIVE add_edges_non_regulating(_, _, _)
add_edges_non_regulating(branches, lists, k) ==
    IF k > Len(branches)
    THEN lists
    ELSE add_edges_non_regulating(branches,
             IF ~branches[k].from_status \/ ~branches[k].to_status
             THEN lists
             ELSE both_edges(lists, branches[k].from_node, branches[k].to_node, FALSE, 0),
             k + 1)

\* the loop that marks the sources, from the source of index k on
RECURSIVE mark_sources(_, _, _)
mark_sources(state, is_source, k) ==
    IF k > Len(state.source)
    THEN is_source
    ELSE mark_sources(state,
                      [is_source EXCEPT ![state.source[k].node] = state.source[k].status],
                      k + 1)

\* the edge lists of build_transformer_graph, component type after component type
\* (a component type of size 0 is skipped: its loop has no round)
all_edges(state, regulated_objects) ==
    add_edges_non_regulating(state.link,
        add_edges_non_regulating(state.line,
            add_edges_ThreeWindingTransformer(state, regulated_objects,
                add_edges_Transformer(state, regulated_objects, NoEdges, 1), 1, 1), 1), 1)

TransformerGraph(lists, num_vertices, is_source) ==
    [throws |-> lists.throws, edges |-> lists.edges, edge_props |-> lists.edge_props,
     num_vertices |-> num_vertices, is_source |-> is_source]

\* the graph built, or the exception of add_edges<Transformer> and nothing else
graph_of(state, lists) ==
    IF lists.throws # "no"
    THEN [throws |-> lists.throws, id |-> lists.id]
    ELSE TransformerGraph(lists, Cardinality(DOMAIN state.node),
             mark_sources(state, Strict([v \in DOMAIN state.node |-> FALSE]), 1))

build_transformer_graph(state) ==
    graph_of(state, all_edges(state, retrieve_regulator_info(state,
                        [transformers |-> {}, transformers3w |-> {}], 1)))

\* edge_weight[u] + weight on EdgeWeight: past infty the sum wraps around
weight_sum(a, b) ==
    IF b > 0 /\ a > infty - b THEN ((a - infty) - 1) + ((b - infty) - 1) ELSE a + b

\* the out-edges of u, in the order of the edge list
out_edges(graph, u) ==
    SelectSeq([e \in 1 .. Len(graph.edges) |-> e], LAMBDA e : graph.edges[e][1] = u)

\* the top of the priority queue: the least pair (dist, vertex)
pq_top(pq) ==
    CHOOSE t \in pq : \A o \in pq : t[1] < o[1] \/ (t[1] = o[1] /\ t[2] <= o[2])

\* one out-edge e of u, with the weight of the edge left out of the sum
relaxed_unweighted(u, e, w, graph) ==
    IF w.edge_weight[u] < w.edge_weight[graph.edges[e][2]]
    THEN [w EXCEPT !.edge_weight[graph.edges[e][2]] = w.edge_weight[u],
                   !.edge_from_to[graph.edges[e][2]] = graph.edge_props[e].from_to,
                   !.edge_is_trafo[graph.edges[e][2]] = graph.edge_props[e].is_trafo,
                   !.pq = @ \cup {<<w.edge_weight[u], graph.edges[e][2]>>},
                   !.from_infty = @ \/ w.edge_weight[u] = infty]
    ELSE [w EXCEPT !.from_infty = @ \/ w.edge_weight[u] = infty]

\* one out-edge e of u in process_edges_dijkstra; from_infty records an
\* addition evaluated with edge_weight[u] = infty
relaxed(u, e, w, graph) ==
    IF weight_sum(w.edge_weight[u], graph.edge_props[e].weight) < w.edge_weight[graph.edges[e][2]]
    THEN [w EXCEPT !.edge_weight[graph.edges[e][2]] =
                       weight_sum(w.edge_weight[u], graph.edge_props[e].weight),
                   !.edge_from_to[graph.edges[e][2]] = graph.edge_props[e].from_to,
                   !.edge_is_trafo[graph.edges[e][2]] = graph.edge_props[e].is_trafo,
                   !.pq = @ \cup {<<weight_sum(w.edge_weight[u], graph.edge_props[e].weight),
                                    graph.edges[e][2]>>},
                   !.from_infty = @ \/ w.edge_weight[u] = infty]
    ELSE [w EXCEPT !.from_infty = @ \/ w.edge_weight[u] = infty]

RECURSIVE for_all_outedges(_, _, _, _)
for_all_outedges(u, es, w, graph) ==
    IF es = <<>>
    THEN w
    ELSE for_all_outedges(u, Tail(es), relaxed(u, Head(es), w, graph), graph)

\* the while loop of process_edges_dijkstra
RECURSIVE while_pq(_, _)
while_pq(w, graph) ==
    IF w.pq = {}
    THEN w
    ELSE IF pq_top(w.pq)[1] # w.edge_weight[pq_top(w.pq)[2]]
         THEN while_pq([w EXCEPT !.pq = @ \ {pq_top(w.pq)}], graph)
         ELSE while_pq(for_all_outedges(pq_top(w.pq)[2], out_edges(graph, pq_top(w.pq)[2]),
                                        [w EXCEPT !.pq = @ \ {pq_top(w.pq)}], graph),
                       graph)

process_edges_dijkstra(v, w, graph) ==
    while_pq([w EXCEPT !.edge_weight[v] = 0,
                       !.edge_from_to[v] = Idx2D(v, v),
                       !.pq = {<<0, v>>}],
             graph)

\* the three vectors of get_edge_weights before the first source
NoWeights(graph) ==
    [edge_weight |-> Strict([v \in Range0(graph.num_vertices) |-> infty]),
     edge_from_to |-> Strict([v \in Range0(graph.num_vertices) |-> Idx2D(0, 0)]),
     edge_is_trafo |-> Strict([v \in Range0(graph.num_vertices) |-> FALSE]),
     pq |-> {},
     from_infty |-> FALSE]

\* the loop over the vertices of get_edge_weights, from vertex v on
RECURSIVE for_all_vertices(_, _, _)
for_all_vertices(v, w, graph) ==
    IF v >= graph.num_vertices
    THEN w
    ELSE for_all_vertices(v + 1,
                          IF graph.is_source[v] THEN process_edges_dijkstra(v, w, graph) ELSE w,
                          graph)

\* the result list of get_edge_weights, with what the loops recorded
weighted_list(w, num_vertices) ==
    [result |-> [i \in 1 .. num_vertices |->
                    TrafoGraphEdge(w.edge_is_trafo[i - 1], w.edge_from_to[i - 1],
                                   w.edge_weight[i - 1])],
     from_infty |-> w.from_infty]

get_edge_weights(graph) ==
    weighted_list(for_all_vertices(0, NoWeights(graph), graph), graph.num_vertices)

\* what std::sort may leave: the lists of the same entries in which no entry
\* precedes one of a lower weight
sorts(w_trafo_list) ==
    {sorted_trafos \in {[i \in 1 .. Len(w_trafo_list) |-> w_trafo_list[p[i]]] :
                            p \in Permutations(1 .. Len(w_trafo_list))} :
         \A i \in 1 .. Len(sorted_trafos) - 1 :
             sorted_trafos[i].weight <= sorted_trafos[i + 1].weight}

\* one round of the loop of rank_transformers with last_weight never updated
group_step_stale(ranked, trafo) ==
    IF ranked.groups = <<>> \/ ranked.last_weight # trafo.weight
    THEN [ranked EXCEPT !.groups = Append(@, <<trafo.from_to>>)]
    ELSE [ranked EXCEPT !.groups[Len(ranked.groups)] = Append(@, trafo.from_to)]

\* one round of the loop of rank_transformers
group_step(ranked, trafo) ==
    IF ranked.groups = <<>> \/ ranked.last_weight # trafo.weight
    THEN [groups |-> Append(ranked.groups, <<trafo.from_to>>), last_weight |-> trafo.weight]
    ELSE [ranked EXCEPT !.groups[Len(ranked.groups)] = Append(@, trafo.from_to)]

RECURSIVE group_loop(_, _, _)
group_loop(sorted_trafos, k, ranked) ==
    IF k > Len(sorted_trafos)
    THEN ranked
    ELSE group_loop(sorted_trafos, k + 1, group_step(ranked, sorted_trafos[k]))

\* rank_transformers after its std::sort has left sorted_trafos
rank_transformers(sorted_trafos) ==
    group_loop(sorted_trafos, 1, [groups |-> <<>>, last_weight |-> -1]).groups

(***************************************************************************)
(* The states ranked: nodes 0 .. MaxNode; a first transformer between the  *)
(* nodes 0 and 1, a chain of branches from node 1 on, one three-winding    *)
(* transformer at the nodes 0, 1 and MaxNode, sources at the nodes 0, 1    *)
(* and MaxNode.                                                            *)
(***************************************************************************)
MaxNode == 2
MaxTapSources == 2

Transformer(id, from_node, to_node, from_status, to_status, tap_side) == [id |-> id, from_node |-> from_node, to_node |-> to_node, from_status |-> from_status, to_status |-> to_status, tap_side |-> tap_side]

Branch(from_node, to_node) == [from_node |-> from_node, to_node |-> to_node, from_status |-> TRUE, to_status |-> TRUE]

TransformerTapRegulator(regulated_object, regulated_object_type, status) == [regulated_object |-> regulated_object, regulated_object_type |-> regulated_object_type, status |-> status]

TapSource(node, status) == [node |-> node, status |-> status]

\* the rated voltages: 2 at the nodes of high, 1 elsewhere
Ratings(high) == Strict([v \in 0 .. MaxNode |-> [u_rated |-> IF v \in high THEN 2 ELSE 1]])

FirstTransformers ==
    {Transformer(10, 0, 1, from_status, to_status, tap_side) :
         from_status \in BOOLEAN, to_status \in BOOLEAN, tap_side \in {"from", "to"}}

FirstRegulators == {<<>>} \cup {<<TransformerTapRegulator(10, "branch", status)>> : status \in BOOLEAN}

ChainKinds == {"transformer", "regulated", "line", "link", "none"}
Chains == [1 .. (MaxNode - 1) -> ChainKinds]

\* the branches of a chain that are of one of the kinds given, as components
ChainOf(chain, kinds, component(_)) ==
    LET ks == SelectSeq([k \in 1 .. (MaxNode - 1) |-> k], LAMBDA k : chain[k] \in kinds)
    IN  [i \in 1 .. Len(ks) |-> component(ks[i])]

ChainTransformer(k) == Transformer(10 + k, k, k + 1, TRUE, TRUE, "from")
ChainBranch(k) == Branch(k, k + 1)
ChainRegulator(k) == TransformerTapRegulator(10 + k, "branch", TRUE)

ThreeWindingTransformer(status_3, tap_side) == [id |-> 20, node |-> <<0, 1, MaxNode>>, status |-> <<TRUE, TRUE, status_3>>, tap_side |-> tap_side]

\* none, or one three-winding transformer with its regulators
ThreeWindings ==
    {[three_winding_transformer |-> <<>>, regulator |-> <<>>],
     [three_winding_transformer |-> <<ThreeWindingTransformer(TRUE, 1)>>,
      regulator |-> <<TransformerTapRegulator(20, "branch3", TRUE)>>],
     [three_winding_transformer |-> <<ThreeWindingTransformer(FALSE, 2)>>,
      regulator |-> <<TransformerTapRegulator(20, "branch3", FALSE)>>],
     [three_winding_transformer |-> <<ThreeWindingTransformer(TRUE, 3)>>,
      regulator |-> <<>>]}

RECURSIVE TapSourceLists(_)
TapSourceLists(n) ==
    IF n = 0
    THEN {<<>>}
    ELSE TapSourceLists(n - 1)
         \cup {Append(sources, TapSource(node, status)) :
                   sources \in {s \in TapSourceLists(n - 1) : Len(s) = n - 1},
                   node \in {0, MaxNode}, status \in BOOLEAN}

MainModelState(node, first, regulator, chain, three, source) ==
    [node |-> node,
     transformer |-> first \o ChainOf(chain, {"transformer", "regulated"}, ChainTransformer),
     three_winding_transformer |-> three.three_winding_transformer,
     line |-> ChainOf(chain, {"line"}, ChainBranch),
     link |-> ChainOf(chain, {"link"}, ChainBranch),
     transformer_tap_regulator |-> regulator \o ChainOf(chain, {"regulated"}, ChainRegulator)
                                       \o three.regulator,
     source |-> source]

Lines == [k \in 1 .. (MaxNode - 1) |-> "line"]
NoThreeWinding == [three_winding_transformer |-> <<>>, regulator |-> <<>>]

\* every first transformer, regulated or not, between nodes of every rating
TransformerStates ==
    {MainModelState(Ratings(high), <<first>>, regulator, Lines, NoThreeWinding,
                    <<TapSource(0, TRUE)>>) :
         high \in {{}, {0}, {1}}, first \in FirstTransformers, regulator \in FirstRegulators}

\* every list of sources at the two ends of a connected network
SourceStates ==
    {MainModelState(Ratings({}), <<Transformer(10, 0, 1, TRUE, TRUE, "from")>>, <<>>, Lines,
                    NoThreeWinding, source) :
         source \in TapSourceLists(MaxTapSources)}

\* every network of the branches above with enabled sources
NetworkStates ==
    {MainModelState(Ratings({}), first.transformer, first.regulator, chain, three, source) :
         first \in {[transformer |-> <<>>, regulator |-> <<>>]}
                   \cup {[transformer |-> <<Transformer(10, 0, 1, TRUE, TRUE, tap_side)>>,
                          regulator |-> regulator] :
                             tap_side \in {"from", "to"},
                             regulator \in {<<>>, <<TransformerTapRegulator(10, "branch", TRUE)>>}},
         chain \in Chains,
         three \in ThreeWindings,
         source \in {<<>>, <<TapSource(0, TRUE)>>, <<TapSource(MaxNode, TRUE)>>,
                     <<TapSource(1, TRUE)>>,
                     <<TapSource(0, TRUE), TapSource(MaxNode, TRUE)>>}}

TapStates == TransformerStates \cup SourceStates \cup NetworkStates

\* lists given to rank_transformers directly: of up to one entry per node, of
\* the weights -1, 0, 1 and infty
WeightedTrafoLists ==
    UNION {{[i \in 1 .. n |-> TrafoGraphEdge(weights[i] = 1, Idx2D(i, i), weights[i])] :
                weights \in [1 .. n -> {-1, 0, 1, infty}]} : n \in 0 .. (MaxNode + 1)}

InitTap ==
    /\ IdleSparseLU
    /\ nr = [last_call |-> "none"]
    /\ wrapper = [last_call |-> "none"]
    /\ \/ \E state \in TapStates : tap = [last_call |-> "none", state |-> state]
       \/ \E w_trafo_list \in WeightedTrafoLists :
              tap = [last_call |-> "none", w_trafo_list |-> w_trafo_list, from_infty |-> FALSE]

BuildTransformerGraph ==
    /\ tap.last_call = "none"
    /\ "state" \in DOMAIN tap
    /\ tap' = [last_call |-> "build_transformer_graph", state |-> tap.state,
               graph |-> build_transformer_graph(tap.state)]
    /\ UNCHANGED <<solver, data, block_perm_array, x, last_call, thrown, seen, pivot_call, nr,
                   wrapper>>

GetEdgeWeights ==
    /\ tap.last_call = "build_transformer_graph"
    /\ tap.graph.throws = "no"
    /\ \E weights \in {get_edge_weights(tap.graph)} :
           tap' = [last_call |-> "get_edge_weights", state |-> tap.state, graph |-> tap.graph,
                   w_trafo_list |-> weights.result, from_infty |-> weights.from_infty]
    /\ UNCHANGED <<solver, data, block_perm_array, x, last_call, thrown, seen, pivot_call, nr,
                   wrapper>>

RankTransformers ==
    /\ tap.last_call \in {"none", "get_edge_weights"}
    /\ "w_trafo_list" \in DOMAIN tap
    /\ \E sorted_trafos \in sorts(tap.w_trafo_list) :
           tap' = [last_call |-> "rank_transformers", w_trafo_list |-> tap.w_trafo_list,
                   sorted_trafos |-> sorted_trafos,
                   groups |-> rank_transformers(sorted_trafos)]
    /\ UNCHANGED <<solver, data, block_perm_array, x, last_call, thrown, seen, pivot_call, nr,
                   wrapper>>

NextTap ==
    \/ BuildTransformerGraph
    \/ GetEdgeWeights
    \/ RankTransformers

SpecTap == InitTap /\ [][NextTap]_vars

(***************************************************************************)
(* build_transformer_graph: the sources (specification SpecTap)            *)
(***************************************************************************)
Built == tap.last_call = "build_transformer_graph" /\ tap.graph.throws = "no"

EnabledSourceAt(node) ==
    \E k \in 1 .. Len(tap.state.source) :
        tap.state.source[k].node = node /\ tap.state.source[k].status

\* C26: after build_transformer_graph a node is marked is_source exactly
\* when at least one enabled source is attached to it, whatever the number
\* and the order of the sources at the node
C26_EnabledSourcesMarked ==
    Built => \A node \in DOMAIN tap.state.node :
                 tap.graph.is_source[node] <=> EnabledSourceAt(node)

(***************************************************************************)
(* get_edge_weights (specification SpecTap)                                *)
(***************************************************************************)
Least(S) == CHOOSE m \in S : \A o \in S : m <= o

Marked(graph) == {v \in Range0(graph.num_vertices) : graph.is_source[v]}

\* the weights of the paths of at most `rounds` edges from the vertices of
\* `from`: relaxation of every edge, round after round
RECURSIVE PathWeights(_, _, _)
PathWeights(graph, from, rounds) ==
    IF rounds = 0
    THEN [v \in Range0(graph.num_vertices) |-> IF v \in from THEN 0 ELSE infty]
    ELSE LET d == PathWeights(graph, from, rounds - 1)
         IN  [v \in Range0(graph.num_vertices) |->
                 Least({d[v]} \cup {d[graph.edges[e][1]] + graph.edge_props[e].weight :
                                        e \in {i \in 1 .. Len(graph.edges) :
                                                   /\ graph.edges[i][2] = v
                                                   /\ d[graph.edges[i][1]] # infty}})]

ShortestFrom(graph, from) == PathWeights(graph, from, graph.num_vertices)

\* the vertices that a directed path from a vertex of `from` reaches
RECURSIVE ReachedFrom(_, _)
ReachedFrom(graph, from) ==
    LET next == from \cup {graph.edges[e][2] : e \in {i \in 1 .. Len(graph.edges) :
                                                          graph.edges[i][1] \in from}}
    IN  IF next = from THEN from ELSE ReachedFrom(graph, next)

\* the sources processed in an order given
RECURSIVE processed_in(_, _, _)
processed_in(order, w, graph) ==
    IF order = <<>>
    THEN w
    ELSE processed_in(Tail(order), process_edges_dijkstra(Head(order), w, graph), graph)

Orders(S) == {order \in [1 .. Cardinality(S) -> S] : \A v \in S : \E i \in DOMAIN order : order[i] = v}

WeightOf(v) == tap.w_trafo_list[v + 1].weight

Weighted == tap.last_call = "get_edge_weights"

\* C27: get_edge_weights gives every vertex the least weight of a directed
\* path from a vertex marked is_source: 0 at the sources, infty where no
\* source reaches, whatever the order of the sources, and never adds to infty
C27_ShortestFromSources ==
    Weighted =>
        /\ \A v \in Range0(tap.graph.num_vertices) :
               /\ WeightOf(v) = Least({ShortestFrom(tap.graph, {s})[v] : s \in Marked(tap.graph)}
                                      \cup {infty})
               /\ v \in Marked(tap.graph) => WeightOf(v) = 0
               /\ v \notin ReachedFrom(tap.graph, Marked(tap.graph)) <=> WeightOf(v) = infty
        /\ \A order \in Orders(Marked(tap.graph)) :
               processed_in(order, NoWeights(tap.graph), tap.graph).edge_weight
                   = Strict([v \in Range0(tap.graph.num_vertices) |-> WeightOf(v)])
        /\ ~tap.from_infty

\* two sources, and a vertex at weight 1 that the first source does not reach
C27_Witness ==
    /\ Weighted
    /\ Cardinality(Marked(tap.graph)) = 2
    /\ \E v \in Range0(tap.graph.num_vertices) :
           /\ WeightOf(v) = 1
           /\ ShortestFrom(tap.graph, {Least(Marked(tap.graph))})[v] = infty

(***************************************************************************)
(* rank_transformers (specification SpecTap)                               *)
(***************************************************************************)
Ranked == tap.last_call = "rank_transformers"

RECURSIVE Flat(_)
Flat(groups) == IF groups = <<>> THEN <<>> ELSE Head(groups) \o Flat(Tail(groups))

\* the group that holds the entry at position i of the sorted list
GroupOf(groups, i) ==
    CHOOSE g \in 1 .. Len(groups) :
        /\ Len(Flat(SubSeq(groups, 1, g - 1))) < i
        /\ i <= Len(Flat(SubSeq(groups, 1, g)))

\* the weight of the first entry of a group
GroupWeight(g) == tap.sorted_trafos[Len(Flat(SubSeq(tap.groups, 1, g - 1))) + 1].weight

\* C28: the groups of rank_transformers are of strictly increasing weight,
\* every entry of the list is in exactly one group, two entries share a group
\* exactly when their weights are equal, and an empty list gives no group
C28_GroupsByWeight ==
    Ranked =>
        /\ \E p \in Permutations(1 .. Len(tap.w_trafo_list)) :
               Flat(tap.groups) = [i \in 1 .. Len(tap.w_trafo_list) |->
                                      tap.w_trafo_list[p[i]].from_to]
        /\ Flat(tap.groups) = [i \in 1 .. Len(tap.sorted_trafos) |->
                                  tap.sorted_trafos[i].from_to]
        /\ \A g \in 1 .. Len(tap.groups) : tap.groups[g] # <<>>
        /\ \A i, j \in 1 .. Len(tap.sorted_trafos) :
               GroupOf(tap.groups, i) = GroupOf(tap.groups, j)
                   <=> tap.sorted_trafos[i].weight = tap.sorted_trafos[j].weight
        /\ \A g \in 1 .. Len(tap.groups) - 1 : GroupWeight(g) < GroupWeight(g + 1)
        /\ tap.w_trafo_list = <<>> => tap.groups = <<>>

\* two groups, of the weights -1 and infty, the one of two entries that were
\* not next to each other in the list
C28_Witness ==
    /\ Ranked
    /\ Len(tap.groups) = 2
    /\ GroupWeight(1) = -1
    /\ GroupWeight(2) = infty
    /\ Len(tap.w_trafo_list) = 3
    /\ tap.w_trafo_list[1].weight = tap.w_trafo_list[3].weight
    /\ tap.w_trafo_list[1].weight # tap.w_trafo_list[2].weight

(***************************************************************************)
(* The edges of the two-winding transformers (specification SpecTap)       *)
(***************************************************************************)
RegulatedByEnabled(transformer) ==
    \E k \in 1 .. Len(tap.state.transformer_tap_regulator) :
        /\ tap.state.transformer_tap_regulator[k].status
        /\ tap.state.transformer_tap_regulator[k].regulated_object = transformer.id

Connected(transformer) == transformer.from_status /\ transformer.to_status

TapSideNode(transformer) ==
    IF transformer.tap_side = "from" THEN transformer.from_node ELSE transformer.to_node

OtherSideNode(transformer) ==
    IF transformer.tap_side = "from" THEN transformer.to_node ELSE transformer.from_node

Raises(transformer) ==
    /\ Connected(transformer)
    /\ RegulatedByEnabled(transformer)
    /\ tap.state.node[TapSideNode(transformer)].u_rated
           < tap.state.node[OtherSideNode(transformer)].u_rated

ExpectedEdges(transformer) ==
    IF ~Connected(transformer)
    THEN <<>>
    ELSE IF RegulatedByEnabled(transformer)
         THEN <<<<TapSideNode(transformer), OtherSideNode(transformer)>>>>
         ELSE <<<<transformer.from_node, transformer.to_node>>,
                <<transformer.to_node, transformer.from_node>>>>

RECURSIVE ExpectedFrom(_)
ExpectedFrom(k) ==
    IF k > Len(tap.state.transformer)
    THEN <<>>
    ELSE ExpectedEdges(tap.state.transformer[k]) \o ExpectedFrom(k + 1)

\* C29: a transformer with a side disconnected adds no edge; a connected one
\* regulated by an enabled regulator adds one edge of weight 1 from its tap
\* side node to its other node, and raises AutomaticTapCalculationError when
\* the tap side node has the lower u_rated; a connected one that is not
\* regulated, or whose regulator is disabled, adds two opposite edges of
\* weight 1
C29_TransformerEdges ==
    tap.last_call = "build_transformer_graph" =>
        /\ tap.graph.throws = "AutomaticTapCalculationError"
               <=> \E k \in 1 .. Len(tap.state.transformer) : Raises(tap.state.transformer[k])
        /\ tap.graph.throws = "no" =>
               /\ Len(tap.graph.edges) >= Len(ExpectedFrom(1))
               /\ SubSeq(tap.graph.edges, 1, Len(ExpectedFrom(1))) = ExpectedFrom(1)
               /\ \A e \in 1 .. Len(ExpectedFrom(1)) :
                      tap.graph.edge_props[e]
                          = TrafoGraphEdge(TRUE, Idx2D(tap.graph.edges[e][1],
                                                       tap.graph.edges[e][2]), 1)
               /\ \A e \in (Len(ExpectedFrom(1)) + 1) .. Len(tap.graph.edges) :
                      \/ ~tap.graph.edge_props[e].is_trafo
                      \/ tap.state.three_winding_transformer # <<>>

\* a transformer with its tap at the to side, regulated by an enabled
\* regulator, has added the one edge from its to node to its from node
C29_Witness ==
    /\ Built
    /\ Len(tap.state.transformer) >= 1
    /\ Len(tap.graph.edges) >= 2
    /\ tap.state.transformer[1].tap_side = "to"
    /\ RegulatedByEnabled(tap.state.transformer[1])
    /\ Connected(tap.state.transformer[1])
    /\ tap.state.node[1].u_rated > tap.state.node[0].u_rated
    /\ tap.graph.edges[1] = <<1, 0>>
    /\ tap.graph.edges[2] # <<0, 1>>

(***************************************************************************)
(* The C++ dataset wrappers (dataset.hpp). A call of the C API is modelled *)
(* by what it leaves: the value it returns and the error code of the       *)
(* handle. A wrapper ends by returning a value or by the exception of      *)
(* check_error; `checked` records that check_error was executed.           *)
(***************************************************************************)
\* handle.check_error() throws when the handle holds an error
check_error(handle) == handle.err_code # 0

Thrown == [outcome |-> "thrown", checked |-> TRUE]

Returned(value, checked) == [outcome |-> "returned", value |-> value, checked |-> checked]

\* C-API call, check_error, return of the value of the call
checked_return(c) ==
    IF check_error(c.handle) THEN Thrown ELSE Returned(c.value, TRUE)

\* C-API call and check_error of a void wrapper
checked_void(c) ==
    IF check_error(c.handle) THEN Thrown ELSE Returned("void", TRUE)

\* C-API call and check_error, and the end of a non-void function reached
\* without a return statement: the caller reads an indeterminate value
checked_no_return(c, indeterminate) ==
    IF check_error(c.handle) THEN Thrown ELSE Returned(indeterminate, TRUE)

\* return of the C-API call, the check_error after it never reached
returned_unchecked(c) == Returned(c.value, FALSE)

InfoWrappers ==
    {"Dataset::Info::name", "Dataset::Info::is_batch", "Dataset::Info::batch_size",
     "Dataset::Info::n_components", "Dataset::ComponentInfo::name",
     "Dataset::ComponentInfo::elements_per_scenario",
     "Dataset::ComponentInfo::total_elements"}

GetInfoWrappers ==
    {"DatasetConst::get_info", "DatasetWritable::get_info", "DatasetMutable::get_info"}

VoidWrappers ==
    {"DatasetConst::add_buffer", "DatasetWritable::set_buffer", "DatasetMutable::add_buffer"}

Wrappers == InfoWrappers \cup GetInfoWrappers \cup VoidWrappers

\* the static overload of a wrapper, after its C-API call has left c
static_wrapper(method, c, indeterminate) ==
    CASE method \in InfoWrappers -> checked_return(c)
      [] method \in VoidWrappers -> checked_void(c)
      [] method \in {"DatasetConst::get_info", "DatasetMutable::get_info"} ->
             checked_no_return(c, indeterminate)
      [] method = "DatasetWritable::get_info" -> returned_unchecked(c)

\* the member overload of a wrapper: it returns what the static overload
\* returns, but ComponentInfo::total_elements calls it and returns nothing
member_wrapper(method, c, indeterminate) ==
    IF /\ method = "Dataset::ComponentInfo::total_elements"
       /\ static_wrapper(method, c, indeterminate).outcome = "returned"
    THEN Returned(indeterminate, TRUE)
    ELSE static_wrapper(method, c, indeterminate)

\* the values of a C-API call, and what an indeterminate value may be read as
CValues == {0, 1, 2}
Indeterminates == CValues \cup {-1}

InitWrapper ==
    /\ IdleSparseLU
    /\ nr = [last_call |-> "none"]
    /\ tap = [last_call |-> "none"]
    /\ wrapper = [last_call |-> "none"]

CallWrapper(method, overload, c, indeterminate) ==
    /\ wrapper' = [last_call |-> method, overload |-> overload, c |-> c,
                   result |-> IF overload = "static"
                              THEN static_wrapper(method, c, indeterminate)
                              ELSE member_wrapper(method, c, indeterminate)]
    /\ UNCHANGED <<solver, data, block_perm_array, x, last_call, thrown, seen, pivot_call, nr,
                   tap>>

NextWrapper ==
    \E method \in Wrappers, overload \in {"static", "member"}, value \in CValues,
       err_code \in {0, 1}, indeterminate \in Indeterminates :
        CallWrapper(method, overload, [value |-> value, handle |-> [err_code |-> err_code]],
                    indeterminate)

SpecWrapper == InitWrapper /\ [][NextWrapper]_vars

WrapperCalled == wrapper.last_call # "none"

\* C30: every dataset wrapper executes handle.check_error() after its C-API
\* call and before it returns, and every wrapper that is not void returns the
\* value of its C-API call
C30_CheckedAndReturned ==
    WrapperCalled =>
        /\ wrapper.result.checked
        /\ wrapper.c.handle.err_code # 0 => wrapper.result.outcome = "thrown"
        /\ (wrapper.last_call \notin VoidWrappers /\ wrapper.result.outcome = "returned")
               => wrapper.result.value = wrapper.c.value

=============================================================================
